---------------------------- MODULE Spec2Model ----------------------------
(***************************************************************************)
(* A model of the MongoDB session key store of wsm                         *)
(* (src/src/Mongo/index.ts, with the codec and converters of the Utils     *)
(* module, src/unnamed/part_000, and the types of src/unnamed/part_001).   *)
(*                                                                         *)
(* Managers share one mongoose connection and one collection.  A task is   *)
(* one chain of asynchronous calls; every action is the code that runs     *)
(* between two awaits of that chain.                                       *)
(***************************************************************************)
EXTENDS Integers, Sequences, FiniteSets, TLC

(***************************************************************************)
(* JavaScript values.  A value is a record tagged by k.  Strings inside    *)
(* values are sequences of one-character strings, so that base64 and       *)
(* parseInt work on characters; storage keys are plain strings.            *)
(***************************************************************************)
Undef == [k |-> "undefined"]
Null == [k |-> "null"]
NaN == [k |-> "nan"]
Bool(b) == [k |-> "bool", b |-> b]
Num(n) == [k |-> "num", n |-> n]
Str(s) == [k |-> "str", s |-> s]
Arr(a) == [k |-> "arr", a |-> a]
Obj(f) == [k |-> "obj", f |-> f]
Buf(bytes) == [k |-> "Buffer", bytes |-> bytes]
U8(bytes) == [k |-> "Uint8Array", bytes |-> bytes]
\* A thrown error in place of a value.
Throw(err) == [k |-> "throw", err |-> err]

IsThrow(v) == v.k = "throw"

\* JavaScript truthiness, as used by ||, && and if.
Truthy(v) ==
    CASE v.k \in {"undefined", "null", "nan"} -> FALSE
      [] v.k = "bool" -> v.b
      [] v.k = "num" -> v.n # 0
      [] v.k = "str" -> v.s # <<>>
      [] OTHER -> TRUE

\* a || b
OrElse(a, b) == IF Truthy(a) THEN a ELSE b

\* obj?.name : undefined when obj is not an object or has no such property.
Prop(v, name) ==
    IF v.k = "obj" /\ name \in DOMAIN v.f THEN v.f[name] ELSE Undef

BufferTag == <<"B", "u", "f", "f", "e", "r">>

(***************************************************************************)
(* Errors: SessionManagerError and its two subclasses, and the errors of   *)
(* the runtime and of the driver.                                          *)
(***************************************************************************)
NoErr == [name |-> "undefined"]

SessionManagerError(name, message, code, originalError) ==
    [name |-> name, message |-> message, code |-> code, cause |-> originalError]

MongoConnectionError(message, originalError) ==
    SessionManagerError("MongoConnectionError", message,
                        "MONGO_CONNECTION_ERROR", originalError)

SessionValidationError(message, originalError) ==
    SessionManagerError("SessionValidationError", message,
                        "SESSION_VALIDATION_ERROR", originalError)

TypeError == [name |-> "TypeError"]

\* The error the driver raises in the n-th attempt of an operation.
DriverError(n) == [name |-> "MongoServerError", seq |-> n]

(***************************************************************************)
(* base64, the encoding of Buffer.toString('base64') and the decoding of   *)
(* Buffer.from(s, 'base64').                                               *)
(***************************************************************************)
B64Alphabet ==
    << "A", "B", "C", "D", "E", "F", "G", "H", "I", "J", "K", "L", "M",
       "N", "O", "P", "Q", "R", "S", "T", "U", "V", "W", "X", "Y", "Z",
       "a", "b", "c", "d", "e", "f", "g", "h", "i", "j", "k", "l", "m",
       "n", "o", "p", "q", "r", "s", "t", "u", "v", "w", "x", "y", "z",
       "0", "1", "2", "3", "4", "5", "6", "7", "8", "9", "+", "/" >>

B64Char(i) == B64Alphabet[i + 1]

IsB64Char(c) == \E i \in 1..64 : B64Alphabet[i] = c

B64Index(c) == (CHOOSE i \in 1..64 : B64Alphabet[i] = c) - 1

RECURSIVE Base64Encode(_)
Base64Encode(bytes) ==
    CASE Len(bytes) = 0 -> <<>>
      [] Len(bytes) = 1 ->
            << B64Char(bytes[1] \div 4), B64Char((bytes[1] % 4) * 16), "=", "=" >>
      [] Len(bytes) = 2 ->
            << B64Char(bytes[1] \div 4),
               B64Char((bytes[1] % 4) * 16 + bytes[2] \div 16),
               B64Char((bytes[2] % 16) * 4), "=" >>
      [] OTHER ->
            << B64Char(bytes[1] \div 4),
               B64Char((bytes[1] % 4) * 16 + bytes[2] \div 16),
               B64Char((bytes[2] % 16) * 4 + bytes[3] \div 64),
               B64Char(bytes[3] % 64) >>
            \o Base64Encode(SubSeq(bytes, 4, Len(bytes)))

\* The characters Node's decoder uses: everything before the first "=",
\* "-" and "_" of the URL alphabet read as "+" and "/", characters outside
\* both alphabets skipped.
RECURSIVE B64Payload(_)
B64Payload(s) ==
    IF s = <<>> \/ Head(s) = "=" THEN <<>>
    ELSE IF IsB64Char(Head(s)) THEN <<B64Index(Head(s))>> \o B64Payload(Tail(s))
    ELSE IF Head(s) = "-" THEN <<62>> \o B64Payload(Tail(s))
    ELSE IF Head(s) = "_" THEN <<63>> \o B64Payload(Tail(s))
    ELSE B64Payload(Tail(s))

RECURSIVE B64Bytes(_)
B64Bytes(q) ==
    CASE Len(q) < 2 -> <<>>
      [] Len(q) = 2 -> << q[1] * 4 + q[2] \div 16 >>
      [] Len(q) = 3 ->
            << q[1] * 4 + q[2] \div 16, (q[2] % 16) * 16 + q[3] \div 4 >>
      [] OTHER ->
            << q[1] * 4 + q[2] \div 16,
               (q[2] % 16) * 16 + q[3] \div 4,
               (q[3] % 4) * 64 + q[4] >>
            \o B64Bytes(SubSeq(q, 5, Len(q)))

Base64Decode(s) == B64Bytes(B64Payload(s))


(***************************************************************************)
(* JSON.stringify(value, BufferJSON.replacer): the stored document, as the *)
(* JSON tree that the text denotes.                                        *)
(***************************************************************************)
\* Buffer.prototype.toJSON, which JSON.stringify calls before the replacer.
ToJSON(v) ==
    IF v.k = "Buffer"
    THEN Obj([data |-> Arr([i \in 1..Len(v.bytes) |-> Num(v.bytes[i])]),
              type |-> Str(BufferTag)])
    ELSE v

\* The byte an element of an array becomes in Buffer.from(array).
ByteOf(e) == IF e.k = "num" THEN e.n % 256 ELSE 0

BytesOfArr(v) == [i \in 1..Len(v.a) |-> ByteOf(v.a[i])]

Replacer(value) ==
    IF Prop(value, "type") = Str(BufferTag) /\ Prop(value, "data").k = "arr"
    THEN Obj([data |-> Str(Base64Encode(BytesOfArr(Prop(value, "data")))),
              type |-> Str(BufferTag)])
    ELSE value

\* The own enumerable properties of a typed array: its indexes.
IndexProps(bytes) ==
    [n \in {ToString(i - 1) : i \in 1..Len(bytes)} |->
        Num(bytes[CHOOSE i \in 1..Len(bytes) : ToString(i - 1) = n])]

RECURSIVE Stringify(_)
Stringify(v) ==
    LET w == Replacer(ToJSON(v)) IN
    CASE w.k = "obj" ->
            Obj([n \in {x \in DOMAIN w.f : w.f[x].k # "undefined"} |->
                    Stringify(w.f[n])])
      [] w.k = "arr" ->
            Arr([i \in 1..Len(w.a) |->
                    IF w.a[i].k = "undefined" THEN Null ELSE Stringify(w.a[i])])
      [] w.k = "Uint8Array" -> Obj(IndexProps(w.bytes))
      \* a Long within 32 bits: its low word is the number itself
      [] w.k = "long" ->
            Obj([high |-> Num(IF w.n < 0 THEN 0 - 1 ELSE 0),
                 low |-> Num(w.n),
                 unsigned |-> Bool(FALSE)])
      [] w.k = "nan" -> Null
      [] OTHER -> w

(***************************************************************************)
(* JSON.parse(text, BufferJSON.reviver): children first, then the node.    *)
(***************************************************************************)
\* Buffer.from(data, 'base64'): a TypeError for what is no string, array or
\* buffer.
BufferFrom(data) ==
    CASE data.k = "str" -> Buf(Base64Decode(data.s))
      [] data.k = "arr" -> Buf(BytesOfArr(data))
      [] data.k \in {"Buffer", "Uint8Array"} -> Buf(data.bytes)
      [] OTHER -> Throw(TypeError)

Reviver(value) ==
    IF Prop(value, "type") = Str(BufferTag)
    THEN IF IsThrow(BufferFrom(Prop(value, "data")))
         THEN Throw(SessionValidationError("Failed to revive Buffer from base64",
                                           TypeError))
         ELSE BufferFrom(Prop(value, "data"))
    ELSE value

RECURSIVE Parse(_)
Parse(t) ==
    CASE t.k = "obj" ->
            LET kids == [n \in DOMAIN t.f |-> Parse(t.f[n])] IN
            IF \E n \in DOMAIN kids : IsThrow(kids[n])
            THEN kids[CHOOSE n \in DOMAIN kids : IsThrow(kids[n])]
            ELSE Reviver(Obj(kids))
      [] t.k = "arr" ->
            LET kids == [i \in 1..Len(t.a) |-> Parse(t.a[i])] IN
            IF \E i \in 1..Len(kids) : IsThrow(kids[i])
            THEN kids[CHOOSE i \in 1..Len(kids) : IsThrow(kids[i])]
            ELSE Arr(kids)
      [] OTHER -> t


(***************************************************************************)
(* TimestampUtils.parseTimestamp and fromObject.                           *)
(***************************************************************************)
DigitChars == <<"0", "1", "2", "3", "4", "5", "6", "7", "8", "9">>

IsDigit(c) == \E i \in 1..10 : DigitChars[i] = c

DigitVal(c) == (CHOOSE i \in 1..10 : DigitChars[i] = c) - 1

RECURSIVE SkipSpaces(_)
SkipSpaces(s) ==
    IF s # <<>> /\ Head(s) = " " THEN SkipSpaces(Tail(s)) ELSE s

RECURSIVE DigitsPrefix(_)
DigitsPrefix(s) ==
    IF s # <<>> /\ IsDigit(Head(s)) THEN <<Head(s)>> \o DigitsPrefix(Tail(s))
    ELSE <<>>

RECURSIVE DigitsValue(_, _)
DigitsValue(s, acc) ==
    IF s = <<>> THEN acc ELSE DigitsValue(Tail(s), acc * 10 + DigitVal(Head(s)))

\* parseInt(s, 10): blanks, a sign, then the longest run of digits.
ParseInt(s) ==
    LET t == SkipSpaces(s)
        signed == t # <<>> /\ Head(t) \in {"-", "+"}
        digits == DigitsPrefix(IF signed THEN Tail(t) ELSE t)
    IN  IF digits = <<>> THEN NaN
        ELSE IF signed /\ Head(t) = "-" THEN Num(0 - DigitsValue(digits, 0))
        ELSE Num(DigitsValue(digits, 0))

RECURSIVE NatChars(_)
NatChars(n) ==
    IF n < 10 THEN <<DigitChars[n + 1]>>
    ELSE NatChars(n \div 10) \o <<DigitChars[(n % 10) + 1]>>

IntChars(n) == IF n < 0 THEN <<"-">> \o NatChars(0 - n) ELSE NatChars(n)

\* The character a byte reads as, as far as parseInt can tell.
ByteChar(b) ==
    CASE b \in 48..57 -> DigitChars[b - 47]
      [] b = 32 -> " "
      [] b = 43 -> "+"
      [] b = 45 -> "-"
      [] OTHER -> "?"

RECURSIVE JoinComma(_)
JoinComma(parts) ==
    IF parts = <<>> THEN <<>>
    ELSE IF Len(parts) = 1 THEN parts[1]
    ELSE parts[1] \o <<",">> \o JoinComma(Tail(parts))

\* value.toString() of a truthy value.
RECURSIVE StringOf(_)
StringOf(v) ==
    CASE v.k = "str" -> v.s
      [] v.k = "num" -> IntChars(v.n)
      [] v.k = "long" -> IntChars(v.n)
      [] v.k = "bool" -> IF v.b THEN <<"t", "r", "u", "e">>
                         ELSE <<"f", "a", "l", "s", "e">>
      [] v.k = "arr" ->
            JoinComma([i \in 1..Len(v.a) |->
                IF v.a[i].k \in {"null", "undefined"} THEN <<>>
                ELSE StringOf(v.a[i])])
      [] v.k = "Uint8Array" ->
            JoinComma([i \in 1..Len(v.bytes) |-> IntChars(v.bytes[i])])
      [] v.k = "Buffer" -> [i \in 1..Len(v.bytes) |-> ByteChar(v.bytes[i])]
      [] OTHER -> <<"[", "o", "b", "j", "e", "c", "t", " ",
                    "O", "b", "j", "e", "c", "t", "]">>

\* A Long-like object: toNumber() gives n.
Long(n) == [k |-> "long", n |-> n]

\* A normalization that defaults to 0 where the text holds no number.
parseTimestampLax(timestamp) ==
    CASE timestamp.k = "str" ->
            IF ParseInt(timestamp.s) = NaN THEN Num(0) ELSE ParseInt(timestamp.s)
      [] timestamp.k \in {"num", "nan"} -> timestamp
      [] timestamp.k = "long" -> Num(timestamp.n)
      [] Truthy(timestamp) -> ParseInt(StringOf(timestamp))
      [] OTHER ->
            Throw(SessionValidationError("Unsupported timestamp type", NoErr))

parseTimestamp(timestamp) ==
    CASE timestamp.k = "str" ->
            IF ParseInt(timestamp.s) = NaN
            THEN Throw(SessionValidationError("Invalid timestamp string", NoErr))
            ELSE ParseInt(timestamp.s)
      [] timestamp.k \in {"num", "nan"} -> timestamp
      [] timestamp.k = "long" -> Num(timestamp.n)
      [] Truthy(timestamp) -> ParseInt(StringOf(timestamp))
      [] OTHER ->
            Throw(SessionValidationError("Unsupported timestamp type", NoErr))

\* The padding count of CryptoUtils.allocateForBase64: p is decremented, then
\* tested.
RECURSIVE PadCount(_, _, _)
PadCount(str, p, n) ==
    IF p - 1 >= 0 /\ (p - 1) % 4 > 1 /\ str[p] = "="
    THEN PadCount(str, p - 1, n + 1)
    ELSE n

allocateForBase64(str) ==
    IF Len(str) = 0 THEN U8(<<0>>)
    ELSE U8([i \in 1..((Len(str) * 3) \div 4 - PadCount(str, Len(str), 0)) |-> 0])

fromObjectKeyData(keyData) ==
    CASE keyData.k = "arr" -> U8(BytesOfArr(keyData))
      [] keyData.k \in {"Buffer", "Uint8Array"} -> keyData
      [] keyData.k = "str" -> allocateForBase64(keyData.s)
      [] OTHER -> U8(<<>>)

fromObject(args) ==
    LET fp == Prop(args, "fingerprint")
        fingerprint ==
            Obj([currentIndex |->
                    OrElse(Prop(fp, "currentIndex"),
                           OrElse(Prop(fp, "rawId"), Num(0))),
                 deviceIndexes |->
                    IF Prop(fp, "deviceIndexes").k = "arr"
                    THEN Prop(fp, "deviceIndexes") ELSE Arr(<<>>),
                 rawId |-> OrElse(Prop(fp, "rawId"), Num(0))])
        timestamp == parseTimestamp(Prop(args, "timestamp"))
    IN  IF IsThrow(timestamp)
        THEN Throw(SessionValidationError("Failed to convert AppDataSync object",
                                          timestamp.err))
        ELSE Obj([timestamp |-> timestamp,
                  keyData |-> fromObjectKeyData(Prop(args, "keyData")),
                  fingerprint |-> fingerprint])


(***************************************************************************)
(* The state.                                                              *)
(***************************************************************************)
Managers == {1, 2}

\* A task runs its calls on the manager of the same number.
Tasks == {1, 2}

VARIABLES
    store,        \* the collection: _id |-> [value, session]
    readyState,   \* mongoose.connection.readyState: 0 disconnected, 1 connected,
                  \* 3 disconnecting
    config,       \* manager |-> this.config
    isConnected,  \* manager |-> this.isConnected
    frame,        \* task |-> the call it runs: arguments, position, result
    calls,        \* the number of calls started
    rnd,          \* the number of bundles initAuthCreds has generated
    written,      \* history: which session has written which (category, id)
    saved,        \* history: session |-> the bundle it saved last, if any
    peer          \* a second process: its collection, connection and
                  \* counters while the first one runs, and the reverse

vars == <<store, readyState, config, isConnected, frame, calls, rnd, written, saved, peer>>

\* The constructor's defaults: option || default.
DefaultOr(option, default) == IF Truthy(option) THEN option.n ELSE default

NewConfig(session, maxRetries, retryRequestDelayMs) ==
    [ session |-> session,
      maxRetries |-> DefaultOr(maxRetries, 10),
      retryRequestDelayMs |-> DefaultOr(retryRequestDelayMs, 200),
      collectionName |-> "baileys-auth",
      debug |-> FALSE ]

\* A string of the program as a storage key holds it.
RECURSIVE Text(_)
Text(chars) ==
    CASE Len(chars) = 0 -> ""
      [] Len(chars) = 1 -> chars[1]
      [] OTHER -> Text(SubSeq(chars, 1, Len(chars) \div 2))
                    \o Text(SubSeq(chars, Len(chars) \div 2 + 1, Len(chars)))

\* The character class [a-zA-Z0-9_-].
WordChars == {B64Alphabet[i] : i \in 1..62} \cup {"_", "-"}

\* The quantifier {1,100} of the session identifier's pattern.
SessionIdMax == 100

\* The quantifier {1,120} of the collection name's pattern.
CollectionNameMax == 120

\* A validator that accepts every string.
isValidSessionIdAny(session) == session.k = "str"

\* ValidationUtils.isValidSessionId: /^[a-zA-Z0-9_-]{1,100}$/
isValidSessionId(session) ==
    /\ Truthy(session) /\ session.k = "str"
    /\ Len(session.s) \in 1..SessionIdMax
    /\ \A i \in 1..Len(session.s) : session.s[i] \in WordChars

\* ValidationUtils.isValidCollectionName: the pattern, and not
\* startsWith('system.').
isValidCollectionName(collectionName) ==
    /\ Truthy(collectionName) /\ collectionName.k = "str"
    /\ Len(collectionName.s) \in 1..CollectionNameMax
    /\ \A i \in 1..Len(collectionName.s) : collectionName.s[i] \in WordChars
    /\ ~ /\ Len(collectionName.s) >= 7
         /\ SubSeq(collectionName.s, 1, 7) = <<"s", "y", "s", "t", "e", "m", ".">>

\* new MongoSessionManager(mongoURI, config): this.config, or what it
\* throws.  options holds the properties of the config argument.
constructor(mongoURI, options) ==
    LET collectionName ==
            OrElse(options.collectionName,
                   Str(<<"b", "a", "i", "l", "e", "y", "s", "-", "a", "u", "t", "h">>))
    IN  IF ~Truthy(mongoURI) \/ mongoURI.k # "str"
        THEN Throw(SessionValidationError(
                     "MongoDB URI is required and must be a string", NoErr))
        ELSE IF ~Truthy(options.session) \/ ~isValidSessionId(options.session)
        THEN Throw(SessionValidationError(
                     "Valid session identifier is required", NoErr))
        ELSE IF ~isValidCollectionName(collectionName)
        THEN Throw(SessionValidationError(
                     "Invalid collection name: " \o Text(collectionName.s), NoErr))
        ELSE [ k |-> "manager",
               config |->
                  [NewConfig(Text(options.session.s), options.maxRetries,
                             options.retryRequestDelayMs)
                     EXCEPT !.collectionName = Text(collectionName.s),
                            !.debug = Truthy(options.debug)] ]

\* this.sessionPrefix + id
FullId(m, id) == config[m].session \o "-" \o id

\* `${type}-${id}` of keys.get, `${category}-${id}` of keys.set
DataKey(category, id) == category \o "-" \o id

CredsId == "creds"

NoReq == [value |-> Undef, id |-> "", kind |-> "none"]

NoRet == [value |-> Undef, error |-> NoErr, status |-> "none"]

EmptyStore == [key \in {} |-> Undef]

\* No second process.
NoPeer ==
    [ store |-> EmptyStore, readyState |-> 0, calls |-> 0, rnd |-> 0, fates |-> <<>>,
      of |-> 0 ]

\* The frame of a task that runs no call.  no, began, tries, ran, waits,
\* issued, store0 and prev are history, kept for the properties.
IdleFrame ==
    [ i |-> 0, data |-> EmptyStore, type |-> "", args |-> <<>>,
      attempt |-> 0, began |-> 0, console |-> <<>>, creds |-> Undef,
      delta |-> <<>>, docId |-> "", ids |-> <<>>, issued |-> <<>>,
      lastError |-> NoErr, no |-> 0, op |-> "none", pc |-> "idle",
      prev |-> [delta |-> <<>>, op |-> "none", ok |-> FALSE, store0 |-> EmptyStore],
      store0 |-> EmptyStore, ran |-> 0, req |-> NoReq, ret |-> NoRet,
      this |-> 0, tries |-> 0, waits |-> <<>> ]


(***************************************************************************)
(* The collection, as the operations of the model SessionModel see it.     *)
(***************************************************************************)
\* updateOne({_id}, {value, session, updatedAt}, {upsert: true})
updateOne(s, id, value, session) ==
    [key \in DOMAIN s \cup {id} |->
        IF key = id THEN [value |-> value, session |-> session] ELSE s[key]]

\* deleteOne({_id})
deleteOne(s, id) == [key \in DOMAIN s \ {id} |-> s[key]]

\* deleteMany({session, _id: {$ne: except}}); except is "" when there is none
deleteMany(s, session, except) ==
    [key \in {x \in DOMAIN s : ~(s[x].session = session /\ x # except)} |-> s[key]]

\* findById(id).lean()
findById(s, id) ==
    IF id \in DOMAIN s
    THEN [k |-> "doc", value |-> s[id].value, session |-> s[id].session, id |-> id]
    ELSE Null

(***************************************************************************)
(* The bodies handed to executeWithRetry: what each does to the collection *)
(* and what it returns.                                                    *)
(***************************************************************************)
\* A writeData that inserts a further record when one exists already.
WriteBodyInsert(m, id, value, s) ==
    updateOne(s, IF FullId(m, id) \in DOMAIN s THEN FullId(m, id) \o "+"
                 ELSE FullId(m, id),
              Stringify(value), config[m].session)

WriteBody(m, id, value, s) ==
    updateOne(s, FullId(m, id), Stringify(value), config[m].session)

\* A removeData that deletes nothing.
RemoveBodyKept(m, id, s) == s

RemoveBody(m, id, s) == deleteOne(s, FullId(m, id))

\* A clearSessionData without the $ne filter.
ClearBodyAll(m, s) == deleteMany(s, config[m].session, "")

ClearBody(m, s) == deleteMany(s, config[m].session, FullId(m, CredsId))

RemoveAllBody(m, s) == deleteMany(s, config[m].session, "")

QueryBody(m, docId, s) == findById(s, FullId(m, docId))

\* An operation body whose query of an absent record stores an empty one.
EffectBootstrap(m, req, s) ==
    CASE req.kind = "write" -> WriteBody(m, req.id, req.value, s)
      [] req.kind = "remove" -> RemoveBody(m, req.id, s)
      [] req.kind = "clear" -> ClearBody(m, s)
      [] req.kind = "removeAll" -> RemoveAllBody(m, s)
      [] req.kind = "query" /\ FullId(m, req.id) \notin DOMAIN s ->
            WriteBody(m, req.id, Obj(EmptyStore), s)
      [] OTHER -> s

Effect(m, req, s) ==
    CASE req.kind = "write" -> WriteBody(m, req.id, req.value, s)
      [] req.kind = "remove" -> RemoveBody(m, req.id, s)
      [] req.kind = "clear" -> ClearBody(m, s)
      [] req.kind = "removeAll" -> RemoveAllBody(m, s)
      [] OTHER -> s

Answer(m, req, s) ==
    IF req.kind = "query" THEN QueryBody(m, req.id, s) ELSE Undef

\* The operationName given to executeWithRetry.
OperationName(req) ==
    CASE req.kind = "query" -> "Query document " \o req.id
      [] req.kind = "write" -> "Write data " \o req.id
      [] req.kind = "remove" -> "Remove data " \o req.id
      [] req.kind = "clear" -> "Clear session data"
      [] OTHER -> "Remove all session data"

\* The error of an exhausted retry loop.
ExhaustedError(m, req, lastError) ==
    MongoConnectionError(
        OperationName(req) \o " failed after "
            \o ToString(config[m].maxRetries) \o " attempts",
        lastError)

\* What executeWithRetry gives its caller: a value or a thrown error.
Returned(v) == [err |-> NoErr, ok |-> TRUE, val |-> v]

Thrown(e) == [err |-> e, ok |-> FALSE, val |-> Undef]

\* readData, from the outcome r of queryDocument.  A record written by
\* writeData holds a non-empty text, so !data.value is false for it.
readData(id, r) ==
    IF ~r.ok
    THEN IF r.err.name = "MongoConnectionError" THEN Throw(r.err)
         ELSE Throw(SessionValidationError("Failed to read data for ID: " \o id,
                                           r.err))
    ELSE IF r.val.k = "null" THEN Null
    ELSE IF IsThrow(Parse(r.val.value))
    THEN Throw(SessionValidationError("Failed to read data for ID: " \o id,
                                      Parse(r.val.value).err))
    ELSE Parse(r.val.value)

(***************************************************************************)
(* Credentials.                                                            *)
(***************************************************************************)
KeyPair(n) == Obj([private |-> Buf(<<n, n>>), public |-> Buf(<<n>>)])

\* initAuthCreds: the n-th bundle the generator produces.
initAuthCreds(n) ==
    Obj([ accountSettings |-> Obj([unarchiveChats |-> Bool(FALSE)]),
          accountSyncCounter |-> Num(0),
          advSecretKey |-> Str(Base64Encode(<<n>>)),
          backupToken |-> Buf(<<n, 2>>),
          deviceId |-> Str(<<"d">> \o NatChars(n)),
          firstUnuploadedPreKeyId |-> Num(1),
          identityId |-> Buf(<<n, 1>>),
          lastPropHash |-> Undef,
          nextPreKeyId |-> Num(1),
          noiseKey |-> KeyPair(4 * n + 1),
          pairingCode |-> Undef,
          pairingEphemeralKeyPair |-> KeyPair(4 * n + 2),
          phoneId |-> Str(<<"p">> \o NatChars(n)),
          processedHistoryMessages |-> Arr(<<>>),
          registered |-> Bool(FALSE),
          registration |-> Obj(EmptyStore),
          registrationId |-> Num(n),
          routingInfo |-> Undef,
          signedIdentityKey |-> KeyPair(4 * n + 3),
          signedPreKey |-> Obj([keyId |-> Num(1),
                                keyPair |-> KeyPair(4 * n + 4),
                                signature |-> Buf(<<4 * n + 4, 0, 1>>)]) ])

isValidAuthCreds(creds) ==
    /\ Truthy(creds)
    /\ Truthy(Prop(creds, "signedIdentityKey"))
    /\ Truthy(Prop(creds, "signedPreKey"))
    /\ Prop(creds, "registrationId").k \in {"num", "nan"}
    /\ Truthy(Prop(creds, "noiseKey"))
    /\ Truthy(Prop(creds, "pairingEphemeralKeyPair"))
    /\ Prop(creds, "advSecretKey").k = "str"


(***************************************************************************)
(* A call's frame: how it moves from one storage operation to the next.    *)
(***************************************************************************)
Return(f, v) ==
    [f EXCEPT !.pc = "done",
              !.ret = [value |-> v, error |-> NoErr, status |-> "ok"]]

Raise(f, e) ==
    [f EXCEPT !.pc = "done",
              !.ret = [value |-> Undef, error |-> e, status |-> "error"]]

\* A logging that counts as an attempt.
LogCounted(debug, f, line) ==
    IF debug THEN [f EXCEPT !.console = Append(@, line), !.tries = @ + 1] ELSE f

\* if (this.config.debug) { console.log(line) }, and console.warn, .error.
Log(debug, f, line) ==
    IF debug THEN [f EXCEPT !.console = Append(@, line)] ELSE f

\* What the storage operations log once they are through; queryDocument
\* logs only a document that it found (debug && document).
OperationLine(req) ==
    CASE req.kind = "query" -> "Retrieved document"
      [] req.kind = "write" -> "Stored data"
      [] req.kind = "remove" -> "Removed data"
      [] req.kind = "clear" -> "Cleared session data"
      [] OTHER -> "Removed all data"

\* Entering executeWithRetry: lastError undefined, attempt 1.
executeWithRetry(f, kind, id, value) ==
    [f EXCEPT !.pc = "loop", !.attempt = 1, !.lastError = NoErr,
              !.req = [value |-> value, id |-> id, kind |-> kind],
              !.began = 0, !.ran = 0, !.waits = <<>>,
              !.issued = Append(@, [id |-> id, kind |-> kind, ok |-> FALSE])]

\* A keys.get that reads the first id for every id.
GetItemFirst(f, i) ==
    executeWithRetry([f EXCEPT !.i = i], "query", DataKey(f.type, f.ids[1]), Undef)

\* keys.get, one id: readData, then fromObject for a sync key.
GetItem(f, i) ==
    executeWithRetry([f EXCEPT !.i = i], "query", DataKey(f.type, f.ids[i]), Undef)

\* keys.set, one (category, id, value): write what is truthy, remove the rest.
SetItem(f, i) ==
    IF Truthy(f.delta[i].value)
    THEN executeWithRetry([f EXCEPT !.i = i], "write",
                          DataKey(f.delta[i].category, f.delta[i].id),
                          f.delta[i].value)
    ELSE executeWithRetry([f EXCEPT !.i = i], "remove",
                          DataKey(f.delta[i].category, f.delta[i].id), Undef)

\* keys.get: what data[id] becomes, v being what readData returned or threw.
getValue(type, v) ==
    IF IsThrow(v) THEN Null
    ELSE IF type = "app-state-sync-key" /\ Truthy(v)
    THEN IF IsThrow(fromObject(v)) THEN Null ELSE fromObject(v)
    ELSE v

Put(data, id, v) ==
    [x \in DOMAIN data \cup {id} |-> IF x = id THEN v ELSE data[x]]

\* A getAuthState that generates a bundle whatever it has read.
SettleAuthStateFresh(f, r, fresh) ==
    IF IsThrow(readData(CredsId, r))
    THEN Raise(f, readData(CredsId, r).err)
    ELSE Return(f, Obj([creds |-> fresh]))

\* A query that answers null when the storage operation failed.
SettlePlainNull(f, r) ==
    IF r.ok THEN Return(f, r.val) ELSE Return(f, Null)

\* A keys.get without the try/catch around one id.
SettleGetAbort(f, r) ==
    LET id == f.ids[f.i]
        v == readData(DataKey(f.type, id), r)
        g == [f EXCEPT !.data = Put(@, id, getValue(f.type, v))]
    IN  IF IsThrow(v) THEN Raise(f, v.err)
        ELSE IF f.i < Len(f.ids) THEN GetItem(g, f.i + 1)
        ELSE Return(g, Obj(g.data))

\* A keys.set whose catch does not rethrow.
SettleSetOn(f, r) ==
    IF f.i < Len(f.delta) THEN SetItem(f, f.i + 1)
    ELSE IF r.ok THEN Return(f, Undef) ELSE Raise(f, r.err)

\* The code that follows executeWithRetry in each facade operation; r is
\* what executeWithRetry returned or threw.
\* query, clearSessionData, removeAllSessionData, saveCredentials: the
\* result or the error goes to the caller as it is.
SettlePlain(f, r) ==
    IF r.ok THEN Return(f, r.val) ELSE Raise(f, r.err)

\* getAuthState: (await this.readData("creds")) || initAuthCreds(), fresh
\* being what initAuthCreds would generate.
\* A getAuthState that answers a failed read with a fresh bundle.
SettleAuthStateLenient(f, r, fresh) ==
    IF IsThrow(readData(CredsId, r))
    THEN Return(f, Obj([creds |-> fresh]))
    ELSE Return(f, Obj([creds |-> OrElse(readData(CredsId, r), fresh)]))

SettleAuthState(f, r, fresh) ==
    IF IsThrow(readData(CredsId, r))
    THEN Raise(f, readData(CredsId, r).err)
    ELSE Return(f, Obj([creds |-> OrElse(readData(CredsId, r), fresh)]))

\* keys.get: the try/catch around one id, then the next id or the return.
SettleGet(f, r) ==
    LET id == f.ids[f.i]
        v == readData(DataKey(f.type, id), r)
        caught == \/ IsThrow(v)
                  \/ /\ f.type = "app-state-sync-key"
                     /\ Truthy(v)
                     /\ IsThrow(fromObject(v))
        g == [Log(config[f.this].debug /\ caught, f, "Failed to get")
                EXCEPT !.data = Put(@, id, getValue(f.type, v))]
    IN  IF f.i < Len(f.ids) THEN GetItem(g, f.i + 1)
        ELSE Return(g, Obj(g.data))

\* keys.set: the try/catch around one item, then the next item or the return.
SettleSet(f, r) ==
    IF ~r.ok THEN Raise(Log(config[f.this].debug, f, "Failed to set"), r.err)
    ELSE IF f.i < Len(f.delta) THEN SetItem(f, f.i + 1)
    ELSE Return(f, Undef)

\* The outcome of the storage operation is noted in the history first.
Settle(f, r, fresh) ==
    LET h == [f EXCEPT !.issued[Len(f.issued)].ok = r.ok] IN
    CASE h.op = "getAuthState" -> SettleAuthState(h, r, fresh)
      [] h.op = "get" -> SettleGet(h, r)
      [] h.op = "set" -> SettleSet(h, r)
      [] OTHER -> SettlePlain(h, r)

\* getAuthState generates a bundle when the read gave nothing.
Bootstraps(f, r) ==
    /\ f.op = "getAuthState"
    /\ ~IsThrow(readData(CredsId, r))
    /\ ~Truthy(readData(CredsId, r))

\* A catch block that gives up at the first failure.
CatchOnce(m, f, error) ==
    Settle([f EXCEPT !.lastError = error],
           Thrown(ExhaustedError(m, f.req, error)), Undef)

\* The catch block of executeWithRetry.
Catch(m, f, error) ==
    LET g == Log(config[m].debug, [f EXCEPT !.lastError = error],
                 "attempt failed")
    IN  IF f.attempt < config[m].maxRetries
        THEN [g EXCEPT !.pc = "wait"]
        ELSE Settle(g, Thrown(ExhaustedError(m, f.req, error)), Undef)


(***************************************************************************)
(* Bounds.                                                                 *)
(***************************************************************************)
\* The number of facade calls in a run.
MaxCalls == 3

\* How much later than the configured delay a timer may fire.
MaxLate == 1

(***************************************************************************)
(* The facade calls.  Each runs up to its first await.  keys.get and       *)
(* keys.set are the functions of a state that getAuthState returned        *)
(* earlier; the connection may have been closed since.                     *)
(***************************************************************************)
\* The manager a task calls: its own, and the first task's when it has
\* constructed none.
Mgr(t) == IF config[t] = Undef THEN 1 ELSE t

Idle(t) == frame[t].pc \in {"idle", "done"}

NewFrame(t, op) ==
    [IdleFrame EXCEPT !.this = Mgr(t),
                      !.op = op, !.no = calls + 1, !.store0 = store,
                      !.prev = [delta |-> frame[t].delta, op |-> frame[t].op,
                                ok |-> frame[t].ret.status = "ok",
                                store0 |-> frame[t].store0]]

Begin(t, f) ==
    /\ Idle(t)
    /\ calls < MaxCalls
    /\ frame' = [frame EXCEPT ![t] = f]
    /\ calls' = calls + 1
    /\ UNCHANGED <<store, readyState, config, isConnected, rnd, written, saved, peer>>

getAuthState(t) ==
    Begin(t, executeWithRetry(NewFrame(t, "getAuthState"), "query", CredsId, Undef))

keysGet(t, type, ids) ==
    LET f == [NewFrame(t, "get") EXCEPT !.type = type, !.ids = ids]
    IN  Begin(t, IF ids = <<>> THEN Return(f, Obj(f.data)) ELSE GetItem(f, 1))

keysSet(t, delta) ==
    LET f == [NewFrame(t, "set") EXCEPT !.delta = delta]
    IN  Begin(t, IF delta = <<>> THEN Return(f, Undef) ELSE SetItem(f, 1))

\* clearSessionData, which keys.clear calls
clearSessionData(t) ==
    Begin(t, executeWithRetry(NewFrame(t, "clear"), "clear", "", Undef))

removeAllSessionData(t) ==
    Begin(t, executeWithRetry(NewFrame(t, "removeAll"), "removeAll", "", Undef))

\* A saveCredentials that writes without validating.
saveCredentialsAny(t, creds) ==
    Begin(t, executeWithRetry([NewFrame(t, "saveCreds") EXCEPT !.creds = creds],
                              "write", CredsId, creds))

saveCredentials(t, creds) ==
    LET f == [NewFrame(t, "saveCreds") EXCEPT !.creds = creds]
    IN  Begin(t, IF ~isValidAuthCreds(creds)
                 THEN Raise(f, SessionValidationError(
                                "Invalid authentication credentials provided", NoErr))
                 ELSE executeWithRetry(f, "write", CredsId, creds))

query(t, docId) ==
    LET f == [NewFrame(t, "query") EXCEPT !.docId = docId]
    IN  Begin(t, executeWithRetry(f, "query", docId, Undef))

\* disconnect() up to its await: nothing to do for a manager that is not
\* connected; otherwise mongoose.disconnect() starts closing the connection
\* (readyState 3, disconnecting).
disconnect(t) ==
    LET f == NewFrame(t, "disconnect") IN
    /\ Idle(t)
    /\ calls < MaxCalls
    /\ calls' = calls + 1
    /\ IF isConnected[Mgr(t)]
       THEN /\ frame' = [frame EXCEPT ![t] = [f EXCEPT !.pc = "disconnecting"]]
            /\ readyState' = IF readyState = 1 THEN 3 ELSE readyState
       ELSE /\ frame' = [frame EXCEPT ![t] = Return(f, Undef)]
            /\ UNCHANGED readyState
    /\ UNCHANGED <<store, config, isConnected, rnd, written, saved, peer>>

\* new MongoSessionManager(mongoURI, options), assigned to the task's
\* manager when it does not throw.
newMongoSessionManager(t, mongoURI, options) ==
    LET f == [NewFrame(t, "new") EXCEPT !.args = <<mongoURI, options>>]
        made == constructor(mongoURI, options)
    IN  /\ Idle(t)
        /\ calls < MaxCalls
        /\ calls' = calls + 1
        /\ frame' = [frame EXCEPT ![t] =
                        IF IsThrow(made) THEN Raise(f, made.err)
                        ELSE Return(Log(made.config.debug, f,
                                        "Initialized for session"), Undef)]
        /\ config' = IF IsThrow(made) THEN config
                      ELSE [config EXCEPT ![Mgr(t)] = made.config]
        /\ isConnected' = IF IsThrow(made) THEN isConnected
                           ELSE [isConnected EXCEPT ![Mgr(t)] = FALSE]
        /\ UNCHANGED <<store, readyState, rnd, written, saved, peer>>

\* useMongoAuthState(mongoURI, options) up to its first await: the
\* constructor, then manager.getAuthState().
useMongoAuthState(t, mongoURI, options) ==
    LET f == [NewFrame(t, "useMongoAuthState") EXCEPT !.args = <<mongoURI, options>>]
        made == constructor(mongoURI, options)
    IN  /\ Idle(t)
        /\ calls < MaxCalls
        /\ calls' = calls + 1
        /\ frame' = [frame EXCEPT ![t] =
                        IF IsThrow(made) THEN Raise(f, made.err)
                        ELSE executeWithRetry(
                                Log(made.config.debug,
                                    [f EXCEPT !.op = "getAuthState"],
                                    "Initialized for session"),
                                "query", CredsId, Undef)]
        /\ config' = IF IsThrow(made) THEN config
                      ELSE [config EXCEPT ![Mgr(t)] = made.config]
        /\ isConnected' = IF IsThrow(made) THEN isConnected
                           ELSE [isConnected EXCEPT ![Mgr(t)] = FALSE]
        /\ UNCHANGED <<store, readyState, rnd, written, saved, peer>>

(***************************************************************************)
(* The steps of executeWithRetry and ensureConnection.                     *)
(***************************************************************************)
Step(t, f) ==
    /\ frame' = [frame EXCEPT ![t] = f]
    /\ UNCHANGED <<config, calls>>

\* History: the (category, id) a write of task t stores, with its session.
Noted(t) ==
    IF frame[t].req.kind # "write" THEN written
    ELSE IF frame[t].op = "set"
    THEN written \cup {[ m |-> Mgr(t),
                         id |-> frame[t].delta[frame[t].i].id,
                         category |-> frame[t].delta[frame[t].i].category ]}
    ELSE written \cup {[m |-> Mgr(t), id |-> CredsId, category |-> ""]}

\* History: the bundle a session has saved last and not removed since, once
\* the saveCredentials or removeAllSessionData of task t has returned.
Kept(t) ==
    LET session == config[Mgr(t)].session IN
    CASE frame[t].op = "saveCreds" -> Put(saved, session, frame[t].creds)
      [] frame[t].op = "removeAll" ->
            [x \in DOMAIN saved \ {session} |-> saved[x]]
      [] OTHER -> saved

\* An ensureConnection that trusts the manager's flag alone.
LoopHeadStale(t) ==
    /\ frame[t].pc = "loop"
    /\ IF frame[t].attempt > config[Mgr(t)].maxRetries
       THEN Step(t, Settle(frame[t],
                           Thrown(ExhaustedError(Mgr(t), frame[t].req,
                                                 frame[t].lastError)), Undef))
       ELSE Step(t, [frame[t] EXCEPT
                        !.began = @ + 1, !.tries = @ + 1,
                        !.pc = IF isConnected[Mgr(t)] THEN "body" ELSE "connecting"])
    /\ UNCHANGED <<store, readyState, isConnected, rnd, written, saved, peer>>

\* The loop test, then ensureConnection up to its await: nothing to do when
\* this manager is connected and the connection is open.
LoopHead(t) ==
    /\ frame[t].pc = "loop"
    /\ IF frame[t].attempt > config[Mgr(t)].maxRetries
       THEN Step(t, Settle(frame[t],
                           Thrown(ExhaustedError(Mgr(t), frame[t].req,
                                                 frame[t].lastError)), Undef))
       ELSE IF isConnected[Mgr(t)] /\ readyState = 1
       THEN Step(t, [frame[t] EXCEPT
                        !.began = @ + 1, !.tries = @ + 1, !.pc = "body"])
       ELSE Step(t, Log(config[Mgr(t)].debug,
                        [frame[t] EXCEPT
                            !.began = @ + 1, !.tries = @ + 1, !.pc = "connecting"],
                        "Connecting to MongoDB..."))
    /\ UNCHANGED <<store, readyState, isConnected, rnd, written, saved, peer>>

\* mongoose.connect resolves.
ConnectOk(t) ==
    /\ frame[t].pc = "connecting"
    /\ readyState' = 1
    /\ isConnected' = [isConnected EXCEPT ![Mgr(t)] = TRUE]
    /\ Step(t, Log(config[Mgr(t)].debug, [frame[t] EXCEPT !.pc = "body"],
                   "Successfully connected to MongoDB"))
    /\ UNCHANGED <<store, rnd, written, saved, peer>>

\* mongoose.connect rejects: caught by ensureConnection, rethrown as a
\* MongoConnectionError, caught by the retry loop.
ConnectFail(t) ==
    /\ frame[t].pc = "connecting"
    /\ readyState # 1
    /\ isConnected' = [isConnected EXCEPT ![Mgr(t)] = FALSE]
    /\ Step(t, Catch(Mgr(t), frame[t],
                     MongoConnectionError("Failed to connect to MongoDB",
                                          DriverError(frame[t].attempt))))
    /\ UNCHANGED <<store, readyState, rnd, written, saved, peer>>

\* The operation runs against the collection and its answer arrives.
BodyOk(t) ==
    LET r == Returned(Answer(Mgr(t), frame[t].req, store)) IN
    /\ frame[t].pc = "body"
    /\ readyState = 1
    /\ store' = Effect(Mgr(t), frame[t].req, store)
    /\ written' = Noted(t)
    /\ saved' = Kept(t)
    /\ rnd' = IF Bootstraps(frame[t], r) THEN rnd + 1 ELSE rnd
    /\ Step(t, Settle(Log(config[Mgr(t)].debug
                             /\ (frame[t].req.kind = "query" => Truthy(r.val)),
                           [frame[t] EXCEPT !.ran = @ + 1],
                           OperationLine(frame[t].req)),
                       r, initAuthCreds(rnd)))
    /\ UNCHANGED <<readyState, isConnected, peer>>

\* The operation fails before it reaches the collection.
BodyFail(t) ==
    /\ frame[t].pc = "body"
    /\ Step(t, Catch(Mgr(t), [frame[t] EXCEPT !.ran = @ + 1],
                     DriverError(frame[t].attempt)))
    /\ UNCHANGED <<store, readyState, isConnected, rnd, written, saved, peer>>

\* The operation takes effect, and its answer is lost.
BodyLost(t) ==
    /\ frame[t].pc = "body"
    /\ readyState = 1
    /\ frame[t].req.kind # "query"
    /\ store' = Effect(Mgr(t), frame[t].req, store)
    /\ written' = Noted(t)
    /\ Step(t, Catch(Mgr(t), [frame[t] EXCEPT !.ran = @ + 1],
                     DriverError(frame[t].attempt)))
    /\ UNCHANGED <<readyState, isConnected, rnd, saved, peer>>

\* A timer set without the configured delay.
DelayNone(t, late) ==
    /\ frame[t].pc = "wait"
    /\ Step(t, [frame[t] EXCEPT
                    !.attempt = @ + 1, !.pc = "loop", !.waits = Append(@, late)])
    /\ UNCHANGED <<store, readyState, isConnected, rnd, written, saved, peer>>

\* A timer after which the same attempt is made again.
DelayStay(t, late) ==
    /\ frame[t].pc = "wait"
    /\ Step(t, [frame[t] EXCEPT !.pc = "loop", !.waits = <<late>>])
    /\ UNCHANGED <<store, readyState, isConnected, rnd, written, saved, peer>>

\* setTimeout(resolve, retryRequestDelayMs) fires, late milliseconds late.
Delay(t, late) ==
    /\ frame[t].pc = "wait"
    /\ Step(t, [frame[t] EXCEPT
                    !.attempt = @ + 1, !.pc = "loop",
                    !.waits = Append(@, config[Mgr(t)].retryRequestDelayMs + late)])
    /\ UNCHANGED <<store, readyState, isConnected, rnd, written, saved, peer>>


\* A disconnect that clears the flag and leaves the connection as a
\* concurrent connect has made it.
DisconnectedLate(t) ==
    /\ frame[t].pc = "disconnecting"
    /\ readyState' = IF readyState = 1 THEN 1 ELSE 0
    /\ isConnected' = [isConnected EXCEPT ![Mgr(t)] = FALSE]
    /\ Step(t, Return(Log(config[Mgr(t)].debug, frame[t],
                          "Disconnected from MongoDB"), Undef))
    /\ UNCHANGED <<store, rnd, written, saved, peer>>

\* mongoose.disconnect() resolves; then this.isConnected = false.
Disconnected(t) ==
    /\ frame[t].pc = "disconnecting"
    /\ readyState' = 0
    /\ isConnected' = [isConnected EXCEPT ![Mgr(t)] = FALSE]
    /\ Step(t, Return(Log(config[Mgr(t)].debug, frame[t],
                          "Disconnected from MongoDB"), Undef))
    /\ UNCHANGED <<store, rnd, written, saved, peer>>


\* The store drops the connection; no manager is told.
Dropped ==
    /\ readyState = 1
    /\ readyState' = 0
    /\ UNCHANGED <<store, config, isConnected, frame, calls, rnd, written, saved, peer>>


(***************************************************************************)
(* Inputs: the six key categories and sample values of each one's type.    *)
(***************************************************************************)
Categories ==
    { "session", "pre-key", "sender-key", "app-state-sync-key",
      "app-state-sync-version", "sender-key-memory" }

AppDataSync(rawId, currentIndex, timestamp) ==
    Obj([ timestamp |-> timestamp,
          keyData |-> Buf(<<9, 8>>),
          fingerprint |-> Obj([ currentIndex |-> Num(currentIndex),
                                deviceIndexes |-> Arr(<<Num(0), Num(1)>>),
                                rawId |-> Num(rawId) ]) ])

LTHashState ==
    Obj([ hash |-> Buf(<<0, 255>>),
          indexValueMap |-> Obj([mac |-> Obj([valueMac |-> Buf(<<5>>)])]),
          version |-> Num(1) ])

\* Values of SignalDataTypeMap[category].
Values(category) ==
    CASE category = "session" -> {Buf(<<1, 2, 3, 4>>)}
      [] category = "pre-key" -> {KeyPair(7)}
      [] category = "sender-key" -> {Buf(<<255>>)}
      [] category = "app-state-sync-key" ->
            {AppDataSync(3, 2, Num(1690000000)), AppDataSync(3, 0, Num(5))}
      [] category = "app-state-sync-version" -> {LTHashState}
      [] OTHER -> {Obj([jid1 |-> Bool(TRUE), jid2 |-> Bool(FALSE)])}

\* A sync key as a caller may pass it at run time, with a timestamp that
\* parseTimestamp rejects.
BadSync == AppDataSync(3, 2, Str(<<"x">>))

Item(category, id, value) == [value |-> value, id |-> id, category |-> category]

\* A valid bundle to save.
SomeCreds == initAuthCreds(9)

(***************************************************************************)
(* Spec: two sessions, "a" and "a-session", share the collection; the      *)
(* store is reachable and each call is awaited before the next is made.    *)
(***************************************************************************)
\* The session identifiers of the two managers.
IsoSessions == << <<"a">>, <<"a", "-", "s", "e", "s", "s", "i", "o", "n">> >>

Init ==
    /\ store = EmptyStore
    /\ readyState = 0
    /\ config = [m \in Managers |->
                    NewConfig(Text(IsoSessions[m]), Undef, Undef)]
    /\ isConnected = [m \in Managers |-> FALSE]
    /\ frame = [t \in Tasks |-> IdleFrame]
    /\ calls = 0
    /\ rnd = 0
    /\ written = {}
    /\ saved = EmptyStore
    /\ peer = NoPeer

Quiet == \A t \in Tasks : Idle(t)

IsoKeys == { <<"session", "pre-key-1">>, <<"pre-key", "1">>, <<"session", "creds">> }

IsoItems ==
    UNION { { Item(key[1], key[2], v) : v \in Values(key[1]) \cup {Null} } :
            key \in IsoKeys }

IsoDocIds == {"creds", "pre-key-1"}

Next ==
    \E t \in Tasks :
        \/ Quiet /\ getAuthState(t)
        \/ Quiet /\ \E key \in IsoKeys : keysGet(t, key[1], <<key[2]>>)
        \/ Quiet /\ \E item \in IsoItems : keysSet(t, <<item>>)
        \/ Quiet /\ clearSessionData(t)
        \/ Quiet /\ removeAllSessionData(t)
        \/ Quiet /\ saveCredentials(t, SomeCreds)
        \/ Quiet /\ \E docId \in IsoDocIds : query(t, docId)
        \/ LoopHead(t)
        \/ ConnectOk(t)
        \/ BodyOk(t)

Spec == Init /\ [][Next]_vars

(***************************************************************************)
(* SpecRound: one session, a reachable store; keys.set and keys.get of     *)
(* every category, one item at a time.                                     *)
(***************************************************************************)
RoundIds == {"1"}

RoundItems ==
    UNION { { Item(category, id, v) : v \in Values(category) \cup {Null} } :
            <<category, id>> \in Categories \X RoundIds }

NextRound ==
    \/ \E item \in RoundItems : keysSet(1, <<item>>)
    \/ \E category \in Categories, id \in RoundIds : keysGet(1, category, <<id>>)
    \/ LoopHead(1)
    \/ ConnectOk(1)
    \/ BodyOk(1)

SpecRound == Init /\ [][NextRound]_vars

(***************************************************************************)
(* SpecFault: one session whose store may fail: the connection may be      *)
(* refused, an operation may fail before or after it took effect.  The     *)
(* retry policy is chosen at construction.                                 *)
(***************************************************************************)
\* The largest maxRetries a manager is constructed with.
MaxRetries == 3

\* The number of facade calls in a run against the failing store.
MaxFaultCalls == 2

\* A retryRequestDelayMs other than the default.
ShortDelay == 50

InitFault ==
    /\ store = EmptyStore
    /\ readyState = 0
    /\ \E n \in 1..MaxRetries, d \in {Undef, Num(ShortDelay)} :
            config = [m \in Managers |-> NewConfig("a", Num(n), d)]
    /\ isConnected = [m \in Managers |-> FALSE]
    /\ frame = [t \in Tasks |-> IdleFrame]
    /\ calls = 0
    /\ rnd = 0
    /\ written = {}
    /\ saved = EmptyStore
    /\ peer = NoPeer

FaultDeltas ==
    { <<Item("session", "1", Buf(<<255>>)), Item("session", "2", Buf(<<1, 2, 3, 4>>))>>,
      <<Item("app-state-sync-key", "1", BadSync),
        Item("app-state-sync-key", "2", AppDataSync(3, 2, Num(1690000000)))>>,
      <<Item("session", "3", Buf(<<7>>)), Item("session", "2", Null),
        Item("session", "1", Null)>> }

FaultGets ==
    { <<"session", <<"1", "2">>>>, <<"app-state-sync-key", <<"1", "2">>>> }

FaultCall == calls < MaxFaultCalls

NextFault ==
    \/ FaultCall /\ getAuthState(1)
    \/ FaultCall /\ \E g \in FaultGets : keysGet(1, g[1], g[2])
    \/ FaultCall /\ \E delta \in FaultDeltas : keysSet(1, delta)
    \/ FaultCall /\ clearSessionData(1)
    \/ FaultCall /\ removeAllSessionData(1)
    \/ FaultCall /\ saveCredentials(1, SomeCreds)
    \/ FaultCall /\ query(1, "session-2")
    \/ LoopHead(1)
    \/ ConnectOk(1)
    \/ ConnectFail(1)
    \/ BodyOk(1)
    \/ BodyFail(1)
    \/ BodyLost(1)
    \/ \E late \in {0, MaxLate} : Delay(1, late)

SpecFault == InitFault /\ [][NextFault]_vars

(***************************************************************************)
(* SpecCreds: two managers of one session, the second constructed after    *)
(* the first, on a reachable store; each call is awaited before the next.  *)
(***************************************************************************)
InitCreds ==
    /\ store = EmptyStore
    /\ readyState = 0
    /\ config = [m \in Managers |-> NewConfig("a", Undef, Undef)]
    /\ isConnected = [m \in Managers |-> FALSE]
    /\ frame = [t \in Tasks |-> IdleFrame]
    /\ calls = 0
    /\ rnd = 0
    /\ written = {}
    /\ saved = EmptyStore
    /\ peer = NoPeer

\* A bundle of a paired device: the generated one with the account added.
PairedCreds ==
    Obj(Put(initAuthCreds(8).f, "me",
            Obj([id |-> Str(<<"1", "@", "s">>), lid |-> Undef])))

NextCreds ==
    \E t \in Tasks :
        \/ Quiet /\ getAuthState(t)
        \/ Quiet /\ \E creds \in {SomeCreds, PairedCreds,
                                   \* the first bundle after pre-keys were uploaded
                                   Obj(Put(SomeCreds.f, "nextPreKeyId", Num(31)))} :
                        saveCredentials(t, creds)
        \/ Quiet /\ keysSet(t, <<Item("session", "1", Buf(<<1, 2, 3, 4>>))>>)
        \/ Quiet /\ clearSessionData(t)
        \/ Quiet /\ removeAllSessionData(t)
        \/ LoopHead(t)
        \/ ConnectOk(t)
        \/ BodyOk(t)

SpecCreds == InitCreds /\ [][NextCreds]_vars

(***************************************************************************)
(* SpecNew: a caller constructs its manager, directly or through           *)
(* useMongoAuthState, with arguments of every kind, and uses the manager   *)
(* it has; the store is reachable.                                         *)
(***************************************************************************)
InitNew ==
    /\ store = EmptyStore
    /\ readyState = 0
    /\ config = [m \in Managers |-> Undef]
    /\ isConnected = [m \in Managers |-> FALSE]
    /\ frame = [t \in Tasks |-> IdleFrame]
    /\ calls = 0
    /\ rnd = 0
    /\ written = {}
    /\ saved = EmptyStore
    /\ peer = NoPeer

\* Arguments <<mongoURI, options>> as a caller may pass them at run time:
\* session identifiers and collection names of every kind, Times(c, n) being n times c.
NewArgs ==
    LET Times(c, n) == [i \in 1..n |-> c]
        sessions ==
            { Undef, Num(5), Str(<<>>), Str(<<"a">>),
              Str(<<"A", "_", "z", "-", "9">>), Str(<<"a", " ", "b">>),
              Str(<<"a", ".", "b">>), Str(<<"a", "\n">>),
              Str(Times("s", SessionIdMax)), Str(Times("s", SessionIdMax + 1)) }
        names ==
            { Undef, Str(<<>>), Str(<<"k", "e", "y", "s", "_", "1">>),
              Str(<<"s", "y", "s", "t", "e", "m", ".", "x">>),
              Str(<<"s", "y", "s", "t", "e", "m">>), Str(<<"a", ".", "b">>),
              Str(<<"a", " ">>),
              Str(Times("c", CollectionNameMax)),
              Str(Times("c", CollectionNameMax + 1)) }
        uris == { Undef, Str(<<"m", "o", "n", "g", "o", "d", "b", ":", "/", "/", "h">>) }
    IN  { << mongoURI,
             [ session |-> session, maxRetries |-> Undef,
               retryRequestDelayMs |-> Undef, collectionName |-> name,
               debug |-> Undef ] >> :
            mongoURI \in uris, session \in sessions, name \in names }

Made(m) == config[m] # Undef

\* The caller constructs until it has a manager.
NextNew ==
    \/ ~Made(1) /\ \E args \in NewArgs :
                        newMongoSessionManager(1, args[1], args[2])
    \/ ~Made(1) /\ \E args \in NewArgs : useMongoAuthState(1, args[1], args[2])
    \/ Made(1) /\ saveCredentials(1, SomeCreds)
    \/ Made(1) /\ query(1, "creds")
    \/ LoopHead(1)
    \/ ConnectOk(1)
    \/ BodyOk(1)

SpecNew == InitNew /\ [][NextNew]_vars

(***************************************************************************)
(* SpecShape: one session whose store may fail; the caller saves bundles   *)
(* of valid and of invalid shape, and one that cannot be decoded once it   *)
(* is stored, reads the credentials back, sets and deletes keys and clears *)
(* the session.                                                            *)
(***************************************************************************)
\* A bundle without its noiseKey.
BadCreds == Obj([n \in DOMAIN SomeCreds.f \ {"noiseKey"} |-> SomeCreds.f[n]])

\* A bundle of valid shape with a property that the reviver takes for a
\* buffer and Buffer.from rejects.
PoisonCreds ==
    Obj(Put(SomeCreds.f, "me", Obj([data |-> Num(5), type |-> Str(BufferTag)])))

NextShape ==
    \/ FaultCall /\ getAuthState(1)
    \/ FaultCall /\ \E creds \in {SomeCreds, PoisonCreds, BadCreds, Undef} :
                        saveCredentials(1, creds)
    \/ FaultCall /\ keysSet(1, <<Item("session", "1", Buf(<<1>>)),
                                  Item("session", "2", Null)>>)
    \/ FaultCall /\ keysSet(1, <<Item("session", "2", Buf(<<2>>)),
                                  Item("session", "1", Null)>>)
    \/ FaultCall /\ clearSessionData(1)
    \/ FaultCall /\ removeAllSessionData(1)
    \/ LoopHead(1)
    \/ ConnectOk(1)
    \/ ConnectFail(1)
    \/ BodyOk(1)
    \/ BodyFail(1)
    \/ BodyLost(1)
    \/ \E late \in {0, MaxLate} : Delay(1, late)

SpecShape == InitFault /\ [][NextShape]_vars

(***************************************************************************)
(* SpecConn: two managers in one process, on a reachable store, operate    *)
(* and disconnect in any order; each call is awaited before the next.      *)
(***************************************************************************)
NextConn ==
    \E t \in Tasks :
        \/ Quiet /\ getAuthState(t)
        \/ Quiet /\ saveCredentials(t, SomeCreds)
        \/ Quiet /\ keysGet(t, "session", <<"1">>)
        \/ Quiet /\ disconnect(t)
        \/ LoopHead(t)
        \/ ConnectOk(t)
        \/ BodyOk(t)
        \/ Disconnected(t)

SpecConn == InitCreds /\ [][NextConn]_vars

(***************************************************************************)
(* SpecLive: two callers, each with its manager, on a store that may fail; *)
(* their calls overlap.  A call that is under way takes its next step      *)
(* eventually: the event loop runs the callbacks of settled promises and   *)
(* of expired timers, and the driver settles every promise it returns (its *)
(* selection and socket timeouts).  Whether the store answers or fails is  *)
(* left open.                                                              *)
(***************************************************************************)
\* The largest maxRetries of the overlapping callers.
MaxLiveRetries == 2

\* The number of calls the two callers make in all.
MaxLiveCalls == 2

InitLive ==
    /\ store = EmptyStore
    /\ readyState = 0
    /\ \E n \in 1..MaxLiveRetries :
            config = [m \in Managers |-> NewConfig("a", Num(n), Undef)]
    /\ isConnected = [m \in Managers |-> FALSE]
    /\ frame = [t \in Tasks |-> IdleFrame]
    /\ calls = 0
    /\ rnd = 0
    /\ written = {}
    /\ saved = EmptyStore
    /\ peer = NoPeer

Continue(t) ==
    \/ LoopHead(t)
    \/ ConnectOk(t)
    \/ ConnectFail(t)
    \/ BodyOk(t)
    \/ BodyFail(t)
    \/ BodyLost(t)
    \/ Delay(t, 0)

\* The steps that do not depend on an answer of the store; a call that is
\* under way can always take one of them.
Unblocked(t) ==
    \/ LoopHead(t)
    \/ ConnectOk(t)
    \/ ConnectFail(t)
    \/ BodyFail(t)
    \/ Delay(t, 0)

\* The first caller uses its key store; the second queries meanwhile.
NextLive ==
    \/ calls < MaxLiveCalls
          /\ keysSet(1, <<Item("session", "1", Buf(<<255>>)),
                          Item("session", "2", Null)>>)
    \/ calls < MaxLiveCalls /\ keysGet(1, "session", <<"1", "2">>)
    \/ calls < MaxLiveCalls /\ query(2, "session-1")
    \/ \E t \in Tasks : Continue(t)

SpecLive ==
    InitLive /\ [][NextLive]_vars /\ \A t \in Tasks : WF_vars(Unblocked(t))

(***************************************************************************)
(* SpecCodec: one session on a reachable store writes a value with         *)
(* keys.set, which encodes it, and reads it with keys.get, which decodes   *)
(* it; the category is "session", whose values keys.get does not convert.  *)
(***************************************************************************)
\* Binary payloads (a Buffer of every length modulo 3, and a Uint8Array
\* that is no Buffer), primitive JSON values, and structures of both, up to
\* three levels deep.
CodecValues ==
    LET payloads == { Buf(<<>>), Buf(<<0>>), Buf(<<255, 1>>), Buf(<<1, 2, 3>>),
                      Buf(<<250, 251, 252, 253>>), U8(<<1, 2, 3>>) }
        primitives == { Null, Bool(FALSE), Num(0), Str(<<"a", "=">>) }
    IN  payloads
          \cup { Bool(TRUE), Num(0 - 7), Str(<<"a", "=">>) }
          \cup { Arr(<<b, v>>) : b \in payloads, v \in primitives }
          \cup { Obj([n |-> v, key |-> b]) : b \in payloads, v \in primitives }
          \cup { Obj([list |-> Arr(<<Obj([key |-> b]), Null>>),
                      map |-> Obj([id |-> Arr(<<b, b>>)])]) : b \in payloads }

NextCodec ==
    \/ \E v \in CodecValues : keysSet(1, <<Item("session", "1", v)>>)
    \/ keysGet(1, "session", <<"1">>)
    \/ LoopHead(1)
    \/ ConnectOk(1)
    \/ BodyOk(1)

SpecCodec == InitCreds /\ [][NextCodec]_vars

(***************************************************************************)
(* SpecTwin: two processes, each with one manager of session "a" and its   *)
(* own collection, connection and counters; the managers differ in debug   *)
(* only.  The first process makes a call and runs it to its end, then the  *)
(* second makes the same call; the storage treats the attempts of a call   *)
(* the same way in both: fates[k] is what happens to the k-th attempt.     *)
(* The variables store, readyState, rnd and calls are those of the process *)
(* that runs, peer holds those of the other.                               *)
(***************************************************************************)
InitTwin ==
    /\ store = EmptyStore
    /\ readyState = 0
    /\ config = [m \in Managers |->
                    [NewConfig("a", Num(2), Undef) EXCEPT !.debug = (m = 1)]]
    /\ isConnected = [m \in Managers |-> FALSE]
    /\ frame = [t \in Tasks |-> IdleFrame]
    /\ calls = 0
    /\ rnd = 0
    /\ written = {}
    /\ saved = EmptyStore
    /\ \E fates \in [1..2 -> {"ok", "fail", "lost", "down"}] :
            peer = [NoPeer EXCEPT !.of = 2, !.fates = fates]

\* The process of task t runs.
Runs(t) == peer.of # t

\* The other process takes over.
Switch ==
    /\ \/ Runs(1) /\ Idle(1) /\ frame[1].no > frame[2].no
       \/ Runs(2) /\ Idle(2) /\ frame[2].no = frame[1].no
    /\ peer' = [peer EXCEPT !.of = 3 - @, !.store = store,
                            !.readyState = readyState, !.rnd = rnd,
                            !.calls = calls]
    /\ store' = peer.store
    /\ readyState' = peer.readyState
    /\ rnd' = peer.rnd
    /\ calls' = peer.calls
    /\ UNCHANGED <<config, isConnected, frame, written, saved>>

\* What the storage does to the attempt that task t is making.
Fate(t) ==
    LET k == frame[t].tries IN
    peer.fates[IF k < 1 THEN 1 ELSE IF k > Len(peer.fates) THEN Len(peer.fates) ELSE k]

\* The calls the first process makes.
TwinCalls ==
    { [IdleFrame EXCEPT !.op = "getAuthState"],
      [IdleFrame EXCEPT !.op = "saveCreds", !.creds = SomeCreds],
      [IdleFrame EXCEPT !.op = "set",
                        !.delta = <<Item("session", "1", Buf(<<1>>)),
                                    Item("pre-key", "2", Null)>>],
      [IdleFrame EXCEPT !.op = "get", !.type = "session", !.ids = <<"1", "2">>],
      [IdleFrame EXCEPT !.op = "clear"],
      [IdleFrame EXCEPT !.op = "disconnect"] }

\* Task t makes the call c.
Call(t, c) ==
    \/ c.op = "getAuthState" /\ getAuthState(t)
    \/ c.op = "saveCreds" /\ saveCredentials(t, c.creds)
    \/ c.op = "set" /\ keysSet(t, c.delta)
    \/ c.op = "get" /\ keysGet(t, c.type, c.ids)
    \/ c.op = "clear" /\ clearSessionData(t)
    \/ c.op = "disconnect" /\ disconnect(t)

NextTwin ==
    \/ Runs(1) /\ frame[1].no = frame[2].no /\ \E c \in TwinCalls : Call(1, c)
    \/ Runs(2) /\ frame[2].no < frame[1].no /\ Call(2, frame[1])
    \/ Switch
    \/ \E t \in Tasks :
          /\ Runs(t)
          /\ \/ LoopHead(t)
             \/ Fate(t) # "down" /\ ConnectOk(t)
             \/ Fate(t) = "down" /\ ConnectFail(t)
             \/ Fate(t) = "ok" /\ BodyOk(t)
             \/ Fate(t) = "lost" /\ BodyLost(t)
             \/ /\ \/ Fate(t) \in {"fail", "down"}
                   \/ Fate(t) = "lost" /\ frame[t].req.kind = "query"
                /\ BodyFail(t)
             \/ Delay(t, 0)
             \/ Disconnected(t)

SpecTwin == InitTwin /\ [][NextTwin]_vars

(***************************************************************************)
(* SpecUtils: a caller applies the exported utilities to values of every   *)
(* shape: TimestampUtils.parseTimestamp, fromObject, and JSON.parse with   *)
(* BufferJSON.reviver on a stored document.                                *)
(***************************************************************************)
\* One call of a utility; it returns or throws at once.
Utility(t, fn, x) ==
    LET f == [NewFrame(t, fn) EXCEPT !.args = <<x>>]
        out == CASE fn = "parseTimestamp" -> parseTimestamp(x)
                 [] fn = "fromObject" -> fromObject(x)
                 [] OTHER -> Parse(x)
    IN  Begin(t, IF IsThrow(out) THEN Raise(f, out.err) ELSE Return(f, out))

NextUtils ==
    LET timestamps ==
            { Str(IntChars(1690000000)), Str(IntChars(0 - 5)), Str(<<>>),
              Str(<<"n", "o", "t", "-", "a", "-", "n", "u", "m", "b", "e", "r">>),
              Str(<<"1", "2", "a", "b", "c">>), Str(<<" ", "4", "2">>),
              Num(1690000000), Num(0), Num(0 - 3), NaN,
              Long(42), Long(0), Stringify(Long(42)),
              Obj(EmptyStore), Arr(<<Num(12)>>), Arr(<<>>), Buf(<<1>>),
              Bool(TRUE), Bool(FALSE), Null, Undef }
        fingerprints ==
            { Obj([name \in names |->
                      CASE name = "rawId" -> Num(rawId)
                        [] name = "currentIndex" -> Num(currentIndex)
                        [] OTHER -> deviceIndexes]) :
                names \in SUBSET {"rawId", "currentIndex", "deviceIndexes"},
                rawId \in {0, 3}, currentIndex \in {0, 2},
                deviceIndexes \in {Arr(<<>>), Arr(<<Num(0), Num(1)>>)} }
        marked ==
            { Obj([data |-> d, type |-> Str(BufferTag)]) :
                d \in { Str(Base64Encode(<<1, 2, 3>>)), Str(Base64Encode(<<255>>)),
                        Str(<<>>), Str(<<"!", "!">>), Str(<<"A">>),
                        Str(<<"A", "Q", "=">>), Str(<<"A", " ", "Q", "=", "=">>),
                        Num(5), Null, Bool(TRUE), Arr(<<Num(1)>>) } }
                \cup { Obj([type |-> Str(BufferTag)]) }
    IN  \/ \E x \in timestamps : Utility(1, "parseTimestamp", x)
        \/ \E x \in timestamps : Utility(1, "fromObject", AppDataSync(3, 2, x))
        \/ \E x \in fingerprints :
              Utility(1, "fromObject",
                      Obj(Put(AppDataSync(3, 2, Num(5)).f, "fingerprint", x)))
        \/ \E x \in marked :
              \E doc \in {x, Obj([n |-> Num(1), key |-> x]), Arr(<<Null, x>>)} :
                  Utility(1, "JSON.parse", doc)

SpecUtils == InitCreds /\ [][NextUtils]_vars

(***************************************************************************)
(* SpecDrop: two managers of one session at work at the same time, with   *)
(* maxRetries 1..MaxLiveRetries; the store may drop the connection at any  *)
(* moment, the second manager may disconnect, and a connect or an          *)
(* operation may fail.                                                     *)
(***************************************************************************)
InitDrop ==
    /\ store = EmptyStore
    /\ readyState = 0
    /\ \E n \in 1..MaxLiveRetries :
            config = [m \in Managers |-> NewConfig("a", Num(n), Undef)]
    /\ isConnected = [m \in Managers |-> FALSE]
    /\ frame = [t \in Tasks |-> IdleFrame]
    /\ calls = 0
    /\ rnd = 0
    /\ written = {}
    /\ saved = EmptyStore
    /\ peer = NoPeer

NextDrop ==
    \/ keysSet(1, <<Item("session", "1", Buf(<<1>>))>>)
    \/ query(2, "session-1")
    \/ disconnect(2)
    \/ Dropped
    \/ \E t \in Tasks :
          \/ LoopHead(t)
          \/ ConnectOk(t)
          \/ ConnectFail(t)
          \/ BodyOk(t)
          \/ BodyFail(t)
          \/ Delay(t, 0)
          \/ Disconnected(t)

SpecDrop == InitDrop /\ [][NextDrop]_vars

(***************************************************************************)
(* SpecPolicy: a caller constructs its manager with a retry policy of its  *)
(* choice, or with none, and saves credentials on a store whose connects   *)
(* and operations may fail.                                                *)
(***************************************************************************)
\* The largest maxRetries the caller supplies.
MaxPolicyRetries == 2

\* Arguments <<mongoURI, options>> with every retry policy: each option
\* omitted, zero or positive.
PolicyArgs ==
    { << Str(<<"m", "o", "n", "g", "o", "d", "b", ":", "/", "/", "h">>),
         [ session |-> Str(<<"a">>), maxRetries |-> maxRetries,
           retryRequestDelayMs |-> retryRequestDelayMs,
           collectionName |-> Undef,
           debug |-> Undef ] >> :
        maxRetries \in {Undef} \cup {Num(n) : n \in 0..MaxPolicyRetries},
        retryRequestDelayMs \in {Undef, Num(0), Num(ShortDelay)} }

NextPolicy ==
    \/ ~Made(1) /\ \E args \in PolicyArgs :
                        newMongoSessionManager(1, args[1], args[2])
    \/ Made(1) /\ calls < MaxCalls /\ saveCredentials(1, SomeCreds)
    \/ LoopHead(1)
    \/ ConnectOk(1)
    \/ ConnectFail(1)
    \/ BodyOk(1)
    \/ BodyFail(1)
    \/ Delay(1, 0)

SpecPolicy == InitNew /\ [][NextPolicy]_vars

(***************************************************************************)
(* SpecAttempt: as SpecPolicy, with every numeric maxRetries the           *)
(* constructor accepts, negative ones among them.                          *)
(***************************************************************************)
\* The least maxRetries the caller supplies is -MaxNegRetries.
MaxNegRetries == 1

AttemptArgs ==
    { << Str(<<"m", "o", "n", "g", "o", "d", "b", ":", "/", "/", "h">>),
         [ session |-> Str(<<"a">>), maxRetries |-> Num(n),
           retryRequestDelayMs |-> Num(ShortDelay),
           collectionName |-> Undef,
           debug |-> Undef ] >> :
        n \in (0 - MaxNegRetries)..MaxPolicyRetries }

NextAttempt ==
    \/ ~Made(1) /\ \E args \in AttemptArgs :
                        newMongoSessionManager(1, args[1], args[2])
    \/ Made(1) /\ calls < MaxCalls /\ saveCredentials(1, SomeCreds)
    \/ Made(1) /\ calls < MaxCalls /\ query(1, "creds")
    \/ LoopHead(1)
    \/ ConnectOk(1)
    \/ ConnectFail(1)
    \/ BodyOk(1)
    \/ BodyFail(1)
    \/ Delay(1, 0)

SpecAttempt == InitNew /\ [][NextAttempt]_vars

(***************************************************************************)
(* SpecRead: one session reads (getAuthState, useMongoAuthState, keys.get, *)
(* query) between writes, on a store whose connects and operations may     *)
(* fail; one of the bundles it saves cannot be decoded once it is stored.  *)
(***************************************************************************)
\* The arguments <<mongoURI, options>> that construct the manager again as
\* it is.
SameArgs ==
    << Str(<<"m", "o", "n", "g", "o", "d", "b", ":", "/", "/", "h">>),
       [ session |-> Str(<<"a">>), maxRetries |-> Num(config[1].maxRetries),
         retryRequestDelayMs |-> Num(config[1].retryRequestDelayMs),
         collectionName |-> Undef,
         debug |-> Undef ] >>

NextRead ==
    \/ FaultCall /\ getAuthState(1)
    \/ FaultCall /\ \E g \in FaultGets : keysGet(1, g[1], g[2])
    \/ FaultCall /\ \E docId \in {"creds", "session-1"} : query(1, docId)
    \/ FaultCall /\ useMongoAuthState(1, SameArgs[1], SameArgs[2])
    \/ FaultCall /\ \E creds \in {SomeCreds, PoisonCreds} : saveCredentials(1, creds)
    \/ FaultCall /\ keysSet(1, <<Item("session", "1", Buf(<<255>>))>>)
    \/ LoopHead(1)
    \/ ConnectOk(1)
    \/ ConnectFail(1)
    \/ BodyOk(1)
    \/ BodyFail(1)
    \/ BodyLost(1)
    \/ Delay(1, 0)

SpecRead == InitFault /\ [][NextRead]_vars

(***************************************************************************)
(* SpecColl: two managers of one session, constructed with different       *)
(* collection names, on a reachable store; the first writes, the second    *)
(* reads and clears; each call is awaited before the next.                 *)
(***************************************************************************)
\* The options of manager m: the first leaves collectionName to its
\* default, the second names its own.
CollOptions(m) ==
    [ session |-> Str(<<"a">>),
      maxRetries |-> Undef,
      retryRequestDelayMs |-> Undef, collectionName |-> IF m = 1 THEN Undef
                         ELSE Str(<<"k", "e", "y", "s", "_", "1">>), debug |-> Undef ]

InitColl ==
    /\ store = EmptyStore
    /\ readyState = 0
    /\ config = [m \in Managers |->
                    constructor(Str(<<"m", "o", "n", "g", "o", "d", "b", ":", "/", "/", "h">>),
                                CollOptions(m)).config]
    /\ isConnected = [m \in Managers |-> FALSE]
    /\ frame = [t \in Tasks |-> IdleFrame]
    /\ calls = 0
    /\ rnd = 0
    /\ written = {}
    /\ saved = EmptyStore
    /\ peer = NoPeer

NextColl ==
    \/ Quiet /\ saveCredentials(1, SomeCreds)
    \/ Quiet /\ keysSet(1, <<Item("session", "1", Buf(<<255>>))>>)
    \/ Quiet /\ getAuthState(2)
    \/ Quiet /\ keysGet(2, "session", <<"1">>)
    \/ Quiet /\ clearSessionData(2)
    \/ Quiet /\ removeAllSessionData(2)
    \/ \E t \in Tasks :
          \/ LoopHead(t)
          \/ ConnectOk(t)
          \/ BodyOk(t)

SpecColl == InitColl /\ [][NextColl]_vars

(***************************************************************************)
(* SpecSame: two callers of one manager; the first runs operations, the    *)
(* second disconnects and queries, at the same time; connects and          *)
(* operations may fail and the store may drop the connection.              *)
(***************************************************************************)
InitSame ==
    /\ store = EmptyStore
    /\ readyState = 0
    /\ \E n \in 1..MaxLiveRetries :
            config = [m \in Managers |->
                         IF m = 1 THEN NewConfig("a", Num(n), Undef) ELSE Undef]
    /\ isConnected = [m \in Managers |-> FALSE]
    /\ frame = [t \in Tasks |-> IdleFrame]
    /\ calls = 0
    /\ rnd = 0
    /\ written = {}
    /\ saved = EmptyStore
    /\ peer = NoPeer

NextSame ==
    \/ keysSet(1, <<Item("session", "1", Buf(<<1>>))>>)
    \/ query(2, "session-1")
    \/ disconnect(2)
    \/ Dropped
    \/ \E t \in Tasks :
          \/ LoopHead(t)
          \/ ConnectOk(t)
          \/ ConnectFail(t)
          \/ BodyOk(t)
          \/ BodyFail(t)
          \/ Delay(t, 0)
          \/ Disconnected(t)

SpecSame == InitSame /\ [][NextSame]_vars

(***************************************************************************)
(* SpecLast: two managers of one session on a reachable store; both set    *)
(* keys, at the same time or one after the other, and the first reads.     *)
(***************************************************************************)
LastDeltas(t) ==
    IF t = 1
    THEN { <<Item("session", "1", Buf(<<1>>)), Item("session", "2", Buf(<<2>>))>>,
           <<Item("session", "1", Null)>>,
           <<Item("app-state-sync-key", "1", AppDataSync(3, 0, Num(5)))>> }
    ELSE { <<Item("session", "2", Buf(<<9>>)), Item("session", "3", Buf(<<3>>))>>,
           <<Item("session", "2", Null)>> }

NextLast ==
    \/ \E t \in Tasks : \E delta \in LastDeltas(t) : keysSet(t, delta)
    \/ \E g \in {<<"session", "1">>, <<"session", "2">>,
                 <<"app-state-sync-key", "1">>} : keysGet(1, g[1], <<g[2]>>)
    \/ \E t \in Tasks :
          \/ LoopHead(t)
          \/ ConnectOk(t)
          \/ BodyOk(t)

SpecLast == InitCreds /\ [][NextLast]_vars

(***************************************************************************)
(* Properties.                                                             *)
(***************************************************************************)
\* The call of task t has returned and no call was started after it.
Latest(t) == frame[t].pc = "done" /\ frame[t].no = calls

\* The storage key of a (category, id) of manager m.
ItemKey(m, category, id) == FullId(m, DataKey(category, id))

\* Which attempt an error of the driver or of the connection came from.
FailureSeq(e) ==
    IF e.name = "MongoServerError" THEN e.seq
    ELSE IF e.name = "MongoConnectionError" /\ e.cause.name = "MongoServerError"
    THEN e.cause.seq
    ELSE 0

\* The in-session keys manager m has written.
WrittenKeys(m) ==
    { IF e.category = "" THEN e.id ELSE DataKey(e.category, e.id) :
        e \in {x \in written : x.m = m} }

\* A keys.get reads back the keys.set made just before it, of one item.
GetAfterSet(f) ==
    /\ f.pc = "done" /\ f.op = "get"
    /\ f.prev.op = "set" /\ f.prev.ok /\ Len(f.prev.delta) = 1
    /\ f.prev.delta[1].category = f.type
    /\ f.ids = <<f.prev.delta[1].id>>

\* C1: a step of one session's call leaves every record that another
\* session has written (a record whose session attribute is not the
\* caller's) present and unmodified.
C1_SessionIsolation ==
    [][\A t \in Tasks : \A key \in DOMAIN store :
          (frame'[t] # frame[t] /\ store[key].session # config[Mgr(t)].session)
              => (key \in DOMAIN store' /\ store'[key] = store[key])]_vars

\* C2: a keys.get(cat, [id]) made after a successful keys.set({cat:{id:v}})
\* with a non-null v of the category's type maps id to a value equal to v.
C2_SetGetRoundTrip ==
    LET f == frame[1] IN
    (GetAfterSet(f) /\ f.prev.delta[1].value # Null)
        => /\ f.ret.status = "ok"
           /\ f.ret.value = Obj(f.ids[1] :> f.prev.delta[1].value)

\* C3: a keys.get(cat, [id]) made after a successful keys.set({cat:{id:null}})
\* maps id to null, and the record of (cat, id) is not in the store,
\* whatever the store held before the set.
C3_DeleteByNull ==
    LET f == frame[1] IN
    (GetAfterSet(f) /\ f.prev.delta[1].value = Null)
        => /\ f.ret.status = "ok"
           /\ f.ret.value = Obj(f.ids[1] :> Null)
           /\ ItemKey(1, f.type, f.ids[1]) \notin DOMAIN store

\* C3 happens: the record existed before it was deleted and read back.
C3_Witness ==
    LET f == frame[1] IN
    /\ GetAfterSet(f) /\ f.prev.delta[1].value = Null
    /\ ItemKey(1, f.type, f.ids[1]) \in DOMAIN f.prev.store0
    /\ f.ret.value = Obj(f.ids[1] :> Null)

\* C4: with a reachable store, keys.get maps an id that this session never
\* wrote in that category to null, and query of a key this session never
\* wrote returns null; neither raises.
C4_NeverWrittenIsAbsent ==
    \A t \in Tasks :
        LET f == frame[t] IN
        f.pc = "done" =>
            /\ f.op = "get" =>
                  \A i \in 1..Len(f.ids) :
                      [m |-> Mgr(t), id |-> f.ids[i], category |-> f.type]
                              \notin written
                          => /\ f.ret.status = "ok"
                             /\ f.ret.value = Obj(f.data)
                             /\ f.data[f.ids[i]] = Null
            /\ f.op = "query" =>
                  (f.docId \notin WrittenKeys(Mgr(t))
                      => f.ret.status = "ok" /\ f.ret.value = Null)

\* C5: when clearSessionData has returned, no record whose session is the
\* caller's remains except the one under session + "-creds", which is as it
\* was; when removeAllSessionData has returned, none remains at all; either
\* way the records of every other session are as they were and nothing is
\* added.
C5_ClearAndRemoveAll ==
    \A t \in Tasks :
        LET f == frame[t]
            session == config[Mgr(t)].session
            credsKey == FullId(Mgr(t), CredsId)
        IN  (Latest(t) /\ f.op \in {"clear", "removeAll"} /\ f.ret.status = "ok")
            => /\ \A key \in DOMAIN store :
                     store[key].session = session
                        => (f.op = "clear" /\ key = credsKey)
               /\ (f.op = "clear" /\ credsKey \in DOMAIN f.store0)
                     => (credsKey \in DOMAIN store
                            /\ store[credsKey] = f.store0[credsKey])
               /\ \A key \in DOMAIN f.store0 :
                     f.store0[key].session # session
                        => (key \in DOMAIN store /\ store[key] = f.store0[key])
               /\ DOMAIN store \subseteq DOMAIN f.store0

\* C5 happens: clearSessionData removed a record of the session and kept
\* its credentials record.
C5_Witness ==
    \E t \in Tasks :
        LET f == frame[t] IN
        /\ Latest(t) /\ f.op = "clear" /\ f.ret.status = "ok"
        /\ FullId(Mgr(t), CredsId) \in DOMAIN store
        /\ store[FullId(Mgr(t), CredsId)].session = config[Mgr(t)].session
        /\ \E key \in DOMAIN f.store0 : key \notin DOMAIN store

\* C6: a storage operation never begins more than maxRetries attempts and
\* does not give up while fewer were made; when it has failed, exactly
\* maxRetries attempts were begun, and what it raises is a
\* MongoConnectionError with code MONGO_CONNECTION_ERROR whose cause is the
\* failure of attempt maxRetries and whose message names the operation and
\* maxRetries.
C6_RetryExhaustion ==
    LET f == frame[1]
        n == config[1].maxRetries
    IN  /\ f.began <= n
        /\ f.pc = "wait" => (f.attempt < n /\ FailureSeq(f.lastError) = f.attempt)
        /\ (f.pc = "done" /\ f.req.kind # "none" /\ ~f.issued[Len(f.issued)].ok)
            => /\ f.began = n
               /\ FailureSeq(f.lastError) = n
               /\ f.op # "get"
                    => /\ f.ret.status = "error"
                       /\ f.ret.error.name = "MongoConnectionError"
                       /\ f.ret.error.code = "MONGO_CONNECTION_ERROR"
                       /\ f.ret.error.cause = f.lastError
                       /\ f.ret.error.message =
                            OperationName(f.req) \o " failed after "
                                \o ToString(n) \o " attempts"

\* C6 happens: an operation has failed in each of MaxRetries attempts.
C6_Witness ==
    LET f == frame[1] IN
    /\ f.pc = "done" /\ f.op = "clear" /\ f.ret.status = "error"
    /\ config[1].maxRetries = MaxRetries
    /\ f.began = MaxRetries

\* C7: when a storage operation has succeeded in attempt k, attempts 1..k
\* and no other were begun, attempt k - 1 (if any) had failed, k - 1 waits
\* were made, each at least retryRequestDelayMs long, and the caller has the
\* result of that attempt.
C7_RetryUntilSuccess ==
    LET f == frame[1]
        n == config[1].maxRetries
    IN  (f.pc = "done" /\ f.req.kind # "none" /\ f.issued[Len(f.issued)].ok)
        => /\ f.attempt \in 1..n
           /\ f.began = f.attempt
           /\ f.attempt > 1 => FailureSeq(f.lastError) = f.attempt - 1
           /\ Len(f.waits) = f.attempt - 1
           /\ \A j \in 1..Len(f.waits) :
                 f.waits[j] >= config[1].retryRequestDelayMs
           /\ f.op \in {"set", "clear", "removeAll", "saveCreds"}
                 => f.ret.status = "ok"
           /\ f.op = "query"
                 => (f.ret.status = "ok"
                        /\ f.ret.value = findById(store, FullId(1, f.docId)))

\* C7 happens: a query succeeded in attempt MaxRetries = maxRetries, with
\* the configured delay.
C7_Witness ==
    LET f == frame[1] IN
    /\ f.pc = "done" /\ f.op = "query" /\ f.ret.status = "ok"
    /\ f.ret.value # Null
    /\ config[1].maxRetries = MaxRetries /\ f.attempt = MaxRetries
    /\ config[1].retryRequestDelayMs = ShortDelay
    /\ Len(f.waits) = MaxRetries - 1

\* The read of the i-th id of the keys.get f failed: its storage operation
\* failed, or the record it found cannot be decoded.
ReadFailed(f, i) ==
    LET key == ItemKey(1, f.type, f.ids[i]) IN
    \/ ~f.issued[i].ok
    \/ /\ key \in DOMAIN store
       /\ \/ IsThrow(Parse(store[key].value))
          \/ /\ f.type = "app-state-sync-key"
             /\ Truthy(Parse(store[key].value))
             /\ IsThrow(fromObject(Parse(store[key].value)))

\* C8: a keys.get that has returned has not raised; it has read every
\* requested id, in order, whatever the reads before it gave; its result has
\* an entry for exactly the requested ids, and the entry of an id whose read
\* failed is null.
C8_GetIsolatesFailures ==
    LET f == frame[1] IN
    (f.pc = "done" /\ f.op = "get")
        => /\ f.ret.status = "ok"
           /\ f.ret.value = Obj(f.data)
           /\ DOMAIN f.data = {f.ids[i] : i \in 1..Len(f.ids)}
           /\ Len(f.issued) = Len(f.ids)
           /\ \A i \in 1..Len(f.ids) :
                 /\ f.issued[i].kind = "query"
                 /\ f.issued[i].id = DataKey(f.type, f.ids[i])
                 /\ ReadFailed(f, i) => f.data[f.ids[i]] = Null

\* C8 happens: the read of the first id failed though its record exists,
\* and the second id was read and has its value.
C8_Witness ==
    LET f == frame[1] IN
    /\ f.pc = "done" /\ f.op = "get" /\ Len(f.ids) = 2
    /\ ~f.issued[1].ok
    /\ ItemKey(1, f.type, f.ids[1]) \in DOMAIN store
    /\ f.issued[2].ok
    /\ f.data[f.ids[2]] # Null

\* C9: when a keys.set has raised, what it raised is the error of the
\* storage operation of the item it was at; no storage operation was issued
\* for a later item, whose record is as it was before the call; and the
\* record of every earlier item is as that item left it.
C9_SetFailureAborts ==
    LET f == frame[1]
        key(j) == ItemKey(1, f.delta[j].category, f.delta[j].id)
    IN  (f.pc = "done" /\ f.op = "set" /\ f.ret.status = "error")
        => /\ Len(f.issued) = f.i
           /\ ~f.issued[f.i].ok
           /\ f.ret.error.name = "MongoConnectionError"
           /\ f.ret.error.cause = f.lastError
           /\ FailureSeq(f.lastError) = config[1].maxRetries
           /\ \A j \in 1..(f.i - 1) :
                 (\A k \in (j + 1)..f.i : key(k) # key(j))
                    => IF Truthy(f.delta[j].value)
                       THEN /\ key(j) \in DOMAIN store
                            /\ Parse(store[key(j)].value) = f.delta[j].value
                       ELSE key(j) \notin DOMAIN store
           /\ \A j \in (f.i + 1)..Len(f.delta) :
                 (\A k \in 1..f.i : key(k) # key(j))
                    => IF key(j) \in DOMAIN f.store0
                       THEN /\ key(j) \in DOMAIN store
                            /\ store[key(j)] = f.store0[key(j)]
                       ELSE key(j) \notin DOMAIN store

\* C9 happens: the second of three items failed; the first was written and
\* the record the third would have deleted is still there.
C9_Witness ==
    LET f == frame[1] IN
    /\ f.pc = "done" /\ f.op = "set" /\ f.ret.status = "error"
    /\ Len(f.delta) = 3 /\ f.i = 2
    /\ ItemKey(1, f.delta[1].category, f.delta[1].id) \in DOMAIN store
    /\ ItemKey(1, f.delta[1].category, f.delta[1].id) \notin DOMAIN f.store0
    /\ ItemKey(1, f.delta[3].category, f.delta[3].id) \in DOMAIN store

\* The getAuthState f returned the bundle initAuthCreds generated last.
Bootstrapped(f) ==
    rnd > 0 /\ f.ret.value = Obj([creds |-> initAuthCreds(rnd - 1)])

\* C10 as stated: an operation that returns reports a key as absent only
\* when no record exists for that key.
C10_AbsentOnlyWhenNoRecord ==
    LET f == frame[1] IN
    (f.pc = "done" /\ f.ret.status = "ok")
        => /\ f.op = "get" =>
                 \A i \in 1..Len(f.ids) :
                     f.data[f.ids[i]] = Null
                        => ItemKey(1, f.type, f.ids[i]) \notin DOMAIN store
           /\ f.op = "query" =>
                 (f.ret.value = Null => FullId(1, f.docId) \notin DOMAIN store)
           /\ f.op = "getAuthState" =>
                 (Bootstrapped(f) => FullId(1, CredsId) \notin DOMAIN store)

\* C10, amended: query and getAuthState raise when their storage operation
\* failed, and report absent (null, a fresh bundle) exactly when no record
\* exists; keys.get never raises, and an id it maps to null either has no
\* record or is one whose read failed.
C10_AbsentOrError ==
    LET f == frame[1] IN
    f.pc = "done"
        => /\ f.op = "query" =>
                 IF f.issued[1].ok
                 THEN /\ f.ret.status = "ok"
                      /\ f.ret.value = Null
                            <=> FullId(1, f.docId) \notin DOMAIN store
                 ELSE f.ret.status = "error"
           /\ f.op = "getAuthState" =>
                 IF f.issued[1].ok
                 THEN /\ f.ret.status = "ok"
                      /\ Bootstrapped(f)
                            <=> FullId(1, CredsId) \notin DOMAIN store
                 ELSE f.ret.status = "error"
           /\ f.op = "get" =>
                 /\ f.ret.status = "ok"
                 /\ \A i \in 1..Len(f.ids) :
                       f.data[f.ids[i]] = Null
                          => \/ ItemKey(1, f.type, f.ids[i]) \notin DOMAIN store
                             \/ ReadFailed(f, i)

\* C10 happens: a query whose storage operation failed has raised, though
\* the record exists.
C10_Witness ==
    LET f == frame[1] IN
    /\ f.pc = "done" /\ f.op = "query" /\ f.ret.status = "error"
    /\ FullId(1, f.docId) \in DOMAIN store


\* Equality of values as a deep comparison sees it: a property whose value
\* is undefined counts as no property.
RECURSIVE Defined(_)
Defined(v) ==
    CASE v.k = "obj" ->
            Obj([n \in {x \in DOMAIN v.f : v.f[x].k # "undefined"} |->
                    Defined(v.f[n])])
      [] v.k = "arr" -> Arr([i \in 1..Len(v.a) |-> Defined(v.a[i])])
      [] OTHER -> v

DeepEqual(a, b) == Defined(a) = Defined(b)

\* C11: a getAuthState that has returned, made by any manager of the
\* session, has the bundle of the session's last successful saveCredentials
\* (deep-equal to it) when one was saved and not removed since, and a
\* freshly generated bundle otherwise, which is exactly when no credentials
\* record is in the store.
C11_CredentialPersistence ==
    \A t \in Tasks :
        LET f == frame[t]
            session == config[Mgr(t)].session
        IN  (Latest(t) /\ f.op = "getAuthState")
            => /\ f.ret.status = "ok"
               /\ IF session \in DOMAIN saved
                  THEN /\ DeepEqual(Prop(f.ret.value, "creds"), saved[session])
                       /\ FullId(Mgr(t), CredsId) \in DOMAIN store
                  ELSE /\ Bootstrapped(f)
                       /\ FullId(Mgr(t), CredsId) \notin DOMAIN store

\* C11 happens: the second manager got the bundle the first had saved, the
\* session's keys having been cleared in between.
C11_Witness ==
    /\ Latest(2) /\ frame[2].op = "getAuthState"
    /\ frame[2].prev.op = "clear"
    /\ frame[1].pc = "done" /\ frame[1].op = "saveCreds"
    /\ frame[1].creds = PairedCreds
    /\ frame[1].no + 1 < frame[2].no
    /\ frame[2].ret.value = Obj([creds |-> Defined(PairedCreds)])

\* C12: the credentials record of a session (the record under its
\* credentials key that the session has saved) is removed only by a step of
\* removeAllSessionData of that session, and is changed only by such a step
\* or by a saveCredentials of that session; no step of any other call, of
\* this session or of another, removes or overwrites it.
C12_CredsNeverImplicitlyDeleted ==
    [][\A m \in Managers :
          LET key == FullId(m, CredsId) IN
          ( /\ key \in DOMAIN store
            /\ store[key].session = config[m].session
            /\ (key \notin DOMAIN store' \/ store'[key] # store[key]) )
          => \E t \in Tasks :
                /\ frame'[t] # frame[t]
                /\ config[Mgr(t)].session = config[m].session
                /\ \/ frame[t].op = "removeAll"
                   \/ frame[t].op = "saveCreds" /\ key \in DOMAIN store']_vars

\* C13: two distinct triples (session, category, id), of valid session
\* identifiers and of the six categories, never have the same storage key
\* session + "-" + category + "-" + id.
C13_KeyInjective ==
    \A e1 \in written, e2 \in written :
        ( /\ isValidSessionId(Str(IsoSessions[e1.m]))
          /\ isValidSessionId(Str(IsoSessions[e2.m]))
          /\ e1.category \in Categories /\ e2.category \in Categories
          /\ <<config[e1.m].session, e1.category, e1.id>>
                # <<config[e2.m].session, e2.category, e2.id>> )
        => ItemKey(e1.m, e1.category, e1.id) # ItemKey(e2.m, e2.category, e2.id)

\* The call of frame f is a construction: new MongoSessionManager or
\* useMongoAuthState.
Constructs(f) == f.args # <<>>

\* The construction of frame f has thrown a validation error; no manager
\* exists and nothing was asked of the connection or of the collection.
Refused(f) ==
    /\ f.pc = "done" /\ f.op \in {"new", "useMongoAuthState"}
    /\ f.ret.status = "error"
    /\ f.ret.error.name = "SessionValidationError"
    /\ ~Made(1)
    /\ f.issued = <<>> /\ f.began = 0
    /\ readyState = 0 /\ ~isConnected[1] /\ store = EmptyStore

\* C14: a construction whose session identifier is empty, holds a
\* character other than a letter, a digit, "_" or "-", or is longer than
\* 100 characters throws a validation error, creates no manager and asks
\* nothing of the connection or of the collection; an identifier of 1 to 100
\* allowed characters is accepted: with a URI and a collection name that
\* are accepted too, the manager exists and has that session.
C14_SessionIdValidation ==
    LET f == frame[1]
        mongoURI == f.args[1]
        session == f.args[2].session
        name == f.args[2].collectionName
        allowed == session.k = "str"
                     /\ Len(session.s) >= 1 /\ Len(session.s) <= 100
                     /\ \A i \in 1..Len(session.s) :
                           \/ IsDigit(session.s[i])
                           \/ session.s[i] \in {"_", "-"}
                           \/ \E j \in 1..52 : B64Alphabet[j] = session.s[i]
    IN  Constructs(f)
        => /\ ~allowed => Refused(f)
           /\ allowed =>
                 /\ f.ret.status = "error"
                       => f.ret.error.message
                            # "Valid session identifier is required"
                 /\ (mongoURI.k = "str" /\ (name = Undef \/ isValidCollectionName(name)))
                       => /\ Made(1)
                          /\ config[1].session = Text(session.s)
                          /\ ~Refused(f)

\* C14 happens: useMongoAuthState with an identifier of 101 allowed
\* characters was refused, the URI and the collection name being good.
C14_Witness ==
    LET f == frame[1] IN
    /\ Constructs(f) /\ f.op = "useMongoAuthState" /\ Refused(f)
    /\ f.args[1].k = "str"
    /\ f.args[2].collectionName = Undef
    /\ f.args[2].session = Str([i \in 1..(SessionIdMax + 1) |-> "s"])

\* C15: with a good URI and session identifier, a construction whose
\* configured collectionName starts with "system." or does not match
\* ^[a-zA-Z0-9_-]{1,120}$ throws a validation error and creates no manager;
\* when collectionName is omitted the manager exists and has the collection
\* name "baileys-auth".
C15_CollectionNameValidation ==
    LET f == frame[1]
        name == f.args[2].collectionName
        matches == /\ Len(name.s) >= 1 /\ Len(name.s) <= 120
                   /\ \A i \in 1..Len(name.s) : name.s[i] \in WordChars
    IN  ( /\ Constructs(f)
          /\ f.args[1].k = "str"
          /\ isValidSessionId(f.args[2].session) )
        => IF name = Undef
           THEN Made(1) /\ config[1].collectionName = "baileys-auth"
           ELSE ( \/ ~matches
                  \/ /\ Len(name.s) >= 7
                     /\ SubSeq(name.s, 1, 7) = <<"s", "y", "s", "t", "e", "m", ".">> )
                  => Refused(f)

\* C16: a saveCredentials of a bundle of invalid shape has raised a
\* validation error at once: no attempt was begun, no storage operation
\* issued, and the store is as it was.  A call that raises a validation
\* error after a storage operation (a record that cannot be decoded) raises
\* it as it is, right after the attempt that succeeded, with no attempt
\* after it.  The retry loop never holds a validation error as the failure
\* to retry, and the connection error of an exhausted loop never wraps one.
C16_ValidationNeverRetried ==
    LET f == frame[1]
        e == f.ret.error
    IN  /\ (f.op = "saveCreds" /\ ~isValidAuthCreds(f.creds))
            => /\ f.pc = "done" /\ f.ret.status = "error"
               /\ e.name = "SessionValidationError"
               /\ f.issued = <<>> /\ f.began = 0 /\ f.ran = 0
               /\ store = f.store0
        /\ (f.pc = "done" /\ f.ret.status = "error"
                /\ e.name = "SessionValidationError" /\ f.issued # <<>>)
            => /\ f.issued[Len(f.issued)].ok
               /\ f.began = f.attempt /\ f.attempt <= config[1].maxRetries
               /\ e.code = "SESSION_VALIDATION_ERROR"
        /\ f.lastError.name # "SessionValidationError"
        /\ (f.pc = "done" /\ f.ret.status = "error"
                /\ e.name = "MongoConnectionError")
            => /\ e.cause.name # "SessionValidationError"
               /\ e.cause.name = "MongoConnectionError"
                     => e.cause.cause.name # "SessionValidationError"

\* C16 happens: a saveCredentials of a bundle without noiseKey was refused
\* while the store held a credentials record, which is still there.
C16_Witness ==
    LET f == frame[1] IN
    /\ f.pc = "done" /\ f.op = "saveCreds" /\ f.creds = BadCreds
    /\ f.ret.status = "error"
    /\ FullId(1, CredsId) \in DOMAIN store
    /\ store = f.store0

\* The call of frame f is a storage-backed operation of the facade.
Operates(f) == f.op \in {"getAuthState", "saveCreds", "get"}

\* C17: an operation runs its storage operation only on an open connection
\* that its manager has established or found, at the first operation and
\* after every disconnect, and returns; and when a disconnect() has
\* returned, the connection is torn down.
C17_ConnectionLifecycle ==
    \A t \in Tasks :
        LET f == frame[t] IN
        /\ f.pc = "body" => (readyState = 1 /\ isConnected[Mgr(t)])
        /\ (Latest(t) /\ Operates(f))
              => (f.ret.status = "ok" /\ f.began = 1 /\ readyState = 1)
        /\ (Latest(t) /\ f.op = "disconnect")
              => (f.ret.status = "ok" /\ readyState = 0 /\ ~isConnected[Mgr(t)])

\* The number of storage operations the call of frame f is made of.
Operations(f) ==
    CASE f.op = "get" -> Len(f.ids)
      [] f.op = "set" -> Len(f.delta)
      [] OTHER -> 1

\* C18: every call that was started returns, with a result or an error; a
\* storage operation begins at most maxRetries attempts, and a call over n
\* ids at most n * maxRetries; and a call that is under way is never ended
\* or restarted by a step of another call: only its own steps advance it.
C18_Termination ==
    /\ \A t \in Tasks : (frame[t].pc # "idle") ~> (frame[t].pc = "done")
    /\ [](\A t \in Tasks :
            /\ frame[t].began <= config[Mgr(t)].maxRetries
            /\ frame[t].tries
                  <= Operations(frame[t]) * config[Mgr(t)].maxRetries)
    /\ [][\A t \in Tasks, u \in Tasks :
            (~Idle(t) /\ frame'[t] # frame[t])
                => /\ frame'[t].no = frame[t].no
                   /\ frame'[t].tries >= frame[t].tries
                   /\ u # t => frame'[u] = frame[u]]_vars

\* C18 happens: a keys.set of two items returned an error after
\* 2 * MaxLiveRetries attempts in all, while the other caller's call was under
\* way.
C18_Witness ==
    /\ frame[1].pc = "done" /\ frame[1].op = "set"
    /\ frame[1].ret.status = "error"
    /\ config[1].maxRetries = MaxLiveRetries
    /\ frame[1].tries = 2 * MaxLiveRetries
    /\ ~Idle(2)
    /\ frame[2].no < frame[1].no

\* C20: decoding the encoding of a value gives a value equal to it: the
\* record that a keys.set has written decodes to the value it was given,
\* and the keys.get that follows returns that value.
C20_CodecRoundTrip ==
    LET f == frame[1] IN
    /\ (f.pc = "done" /\ f.op = "set" /\ f.ret.status = "ok")
          => Parse(store[ItemKey(1, "session", f.delta[1].id)].value)
                = f.delta[1].value
    /\ GetAfterSet(f)
          => (f.ret.status = "ok"
                /\ f.ret.value = Obj(f.ids[1] :> f.prev.delta[1].value))

\* The second process has made the call the first has made, and both are
\* through with it.
Replayed ==
    /\ Runs(2)
    /\ frame[2].pc = "done"
    /\ frame[2].no = frame[1].no

\* C19: the debug option has no behavioural effect: of two managers that
\* differ only in debug, given the same calls and the same treatment by the
\* storage, each call returns the same result or raises the same error in
\* both, after the same number of attempts and storage operations, and the
\* collections and the connections are the same afterwards.
C19_DebugHasNoEffect ==
    Replayed =>
        /\ frame[2].op = frame[1].op
        /\ frame[2].ret = frame[1].ret
        /\ frame[2].tries = frame[1].tries
        /\ frame[2].waits = frame[1].waits
        /\ frame[2].issued = frame[1].issued
        /\ store = peer.store
        /\ readyState = peer.readyState
        /\ isConnected[2] = isConnected[1]

\* C19 happens: a keys.set that failed once and was retried has logged in
\* the debugging manager and has not in the other, and both have succeeded.
C19_Witness ==
    /\ Replayed
    /\ frame[1].op = "set"
    /\ frame[1].ret.status = "ok"
    /\ frame[2].ret.status = "ok"
    /\ frame[1].tries > Len(frame[1].delta)
    /\ Len(frame[1].console) > 3
    /\ frame[2].console = <<>>
    /\ store # EmptyStore

\* A text is base64: groups of four characters of the alphabet, the last
\* one padded with at most two "=".
ValidBase64(s) ==
    /\ Len(s) % 4 = 0
    /\ \E p \in 0..2 :
          /\ p <= Len(s)
          /\ \A i \in 1..Len(s) :
                IF i > Len(s) - p THEN s[i] = "=" ELSE IsB64Char(s[i])

\* The document, or a value in it, is marked type "Buffer" with data that
\* is not base64.
BadlyMarked(doc) ==
    LET bad(x) == /\ Prop(x, "type") = Str(BufferTag)
                  /\ ~(Prop(x, "data").k = "str" /\ ValidBase64(Prop(x, "data").s))
    IN  \/ bad(doc)
        \/ doc.k = "obj" /\ \E n \in DOMAIN doc.f : bad(doc.f[n])
        \/ doc.k = "arr" /\ \E i \in 1..Len(doc.a) : bad(doc.a[i])

\* C21: decoding a stored document in which an object marked type "Buffer"
\* carries data that is not valid base64 throws a validation error, and
\* gives no value.
C21_DecodingError ==
    LET f == frame[1] IN
    (f.pc = "done" /\ f.op = "JSON.parse" /\ BadlyMarked(f.args[1]))
        => (f.ret.status = "error" /\ f.ret.error.name = "SessionValidationError")

\* A decimal text: digits, after a minus sign or none.
Decimal(s) ==
    LET digits == IF s # <<>> /\ Head(s) = "-" THEN Tail(s) ELSE s IN
    /\ digits # <<>>
    /\ \A i \in 1..Len(digits) : IsDigit(digits[i])

\* The number v is the one that the decimal text s denotes.
Denotes(s, v) == v.k = "num" /\ IntChars(v.n) = s

C23_MalformedTimestampIsError ==
    LET f == frame[1]
        raised == /\ f.ret.status = "error"
                  /\ f.ret.error.name = "SessionValidationError"
    IN  /\ (f.pc = "done" /\ f.op = "parseTimestamp") =>
                (raised \/ (f.ret.status = "ok" /\ f.ret.value.k = "num"))
        /\ (f.pc = "done" /\ f.op = "fromObject") =>
                \/ raised
                \/ /\ f.ret.status = "ok"
                   /\ Prop(f.ret.value, "timestamp").k = "num"

\* The bundle that the record of session "a" holds, decoded.
Persisted(s) == Parse(s[FullId(1, CredsId)].value)

\* C24: as long as the session's bundle stays persisted, its identity key
\* pair, signed pre-key, noise key pair and pairing ephemeral key pair do
\* not change, and its counters nextPreKeyId, firstUnuploadedPreKeyId and
\* accountSyncCounter do not decrease.
C24_BundleInvariant ==
    [][ (FullId(1, CredsId) \in DOMAIN store /\ FullId(1, CredsId) \in DOMAIN store')
          => /\ \A key \in {"signedIdentityKey", "signedPreKey", "noiseKey",
                             "pairingEphemeralKeyPair"} :
                    Prop(Persisted(store'), key) = Prop(Persisted(store), key)
             /\ \A counter \in {"nextPreKeyId", "firstUnuploadedPreKeyId",
                                 "accountSyncCounter"} :
                    Prop(Persisted(store'), counter).n
                        >= Prop(Persisted(store), counter).n ]_vars

\* Task 1 was connecting and the connection could not be established.
ConnectFailed == frame[1].pc = "connecting" /\ frame'[1].pc # "body"

\* C25, as stated: when establishing the connection fails, the operation
\* raises a connection error and no further attempt is made.
C25_ConnectFailureAborts ==
    [][ ConnectFailed =>
            /\ frame'[1].pc = "done"
            /\ frame'[1].ret.status = "error"
            /\ frame'[1].ret.error.name = "MongoConnectionError" ]_vars

\* C25, corrected: when establishing the connection fails, the attempt
\* ends with a connection error and without running the operation; before
\* the last attempt the loop waits and goes on, at the last attempt the
\* operation raises a connection error whose cause is that failure.
C25_ConnectFailureEndsAttempt ==
    [][ ConnectFailed =>
            /\ frame'[1].ran = frame[1].ran
            /\ frame'[1].lastError.name = "MongoConnectionError"
            /\ frame'[1].lastError.message = "Failed to connect to MongoDB"
            /\ IF frame[1].attempt < config[1].maxRetries
               THEN frame'[1].pc = "wait" /\ frame'[1].attempt = frame[1].attempt
               ELSE /\ frame'[1].pc = "done"
                    /\ frame'[1].ret.status = "error"
                    /\ frame'[1].ret.error.name = "MongoConnectionError"
                    /\ frame'[1].ret.error.cause = frame'[1].lastError ]_vars

\* C25 happens: a getAuthState whose first attempt could not connect has
\* made a second attempt and has succeeded.
C25_Witness ==
    /\ frame[1].pc = "done"
    /\ frame[1].op = "getAuthState"
    /\ frame[1].ret.status = "ok"
    /\ frame[1].tries = 2
    /\ frame[1].ran = 1
    /\ frame[1].lastError.message = "Failed to connect to MongoDB"

\* C26: every attempt checks the connection before it runs the operation:
\* an attempt goes to the operation directly only when the connection is
\* open, it connects when the connection was dropped, it runs the operation
\* only after the check or the connect succeeded, an operation succeeds
\* only on an open connection, and a call fails only when it has used all
\* its attempts, so that a connection dropped before the last attempt is
\* recovered from.
C26_RevalidatesConnection ==
    /\ [][ \A t \in Tasks :
            LET f == frame[t]
                g == frame'[t]
                healthy == isConnected[Mgr(t)] /\ readyState = 1
            IN  /\ (f.pc = "loop" /\ g.pc = "body") => healthy
                /\ (f.pc = "loop" /\ g # f /\ ~healthy
                        /\ f.attempt <= config[Mgr(t)].maxRetries)
                      => g.pc = "connecting"
                /\ (f.pc = "connecting" /\ g.pc = "body")
                      => (readyState' = 1 /\ isConnected'[Mgr(t)])
                /\ (f.pc = "connecting" /\ g.pc \notin {"connecting", "body"})
                      => g.ran = f.ran
                /\ (f.pc = "body" /\ g.pc = "done" /\ g.ret.status = "ok")
                      => readyState = 1 ]_vars
    /\ [](\A t \in Tasks :
            (frame[t].pc = "done" /\ frame[t].ret.status = "error"
                /\ frame[t].op \in {"set", "query"})
              => frame[t].began = config[Mgr(t)].maxRetries)

\* C26 happens: the second manager has disconnected while the first one's
\* keys.set was under way; the keys.set has failed once, has connected
\* again and has succeeded.
C26_Witness ==
    /\ frame[1].pc = "done"
    /\ frame[1].op = "set"
    /\ frame[1].ret.status = "ok"
    /\ frame[1].tries = 2
    /\ frame[1].ran = 2
    /\ frame[2].op = "disconnect"
    /\ frame[2].pc = "done"
    /\ frame[2].no > frame[1].no
    /\ ~isConnected[2]
    /\ readyState = 1

\* C27: ensuring the connection is idempotent: an operation calls connect
\* only when the shared connection is not open, whichever manager has
\* opened it, and an attempt that finds it open leaves it as it is.
C27_EnsureConnectionIdempotent ==
    [][ \A t \in Tasks :
            /\ (frame[t].pc = "loop" /\ frame'[t].pc = "connecting")
                  => readyState # 1
            /\ (frame[t].pc = "loop" /\ frame'[t].pc = "body")
                  => (readyState' = 1 /\ isConnected' = isConnected) ]_vars

\* The step from frame f to frame g issues a storage operation.
Issues(f, g) ==
    \/ g.no # f.no /\ g.issued # <<>>
    \/ g.no = f.no /\ Len(g.issued) > Len(f.issued)

\* C28: within a keys.get or keys.set call the storage operations are
\* issued one at a time and in the order of the ids given: the operation
\* of the next id is issued in the step in which that of the previous id
\* finishes, having succeeded or used all its attempts, never while an
\* attempt or a delay of the previous one is pending.
C28_SequentialProcessing ==
    [][ \A t \in Tasks :
            LET f == frame[t]
                g == frame'[t]
            IN  (g.op \in {"get", "set"} /\ Issues(f, g)) =>
                    /\ g.i = Len(g.issued)
                    /\ g.pc = "loop"
                    /\ g.attempt = 1
                    /\ g.req.id = IF g.op = "get"
                                  THEN DataKey(g.type, g.ids[g.i])
                                  ELSE DataKey(g.delta[g.i].category, g.delta[g.i].id)
                    /\ g.issued[g.i].id = g.req.id
                    /\ IF g.i = 1 THEN g.no # f.no
                       ELSE /\ g.no = f.no
                            /\ f.i = g.i - 1
                            /\ f.pc \in {"loop", "connecting", "body"}
                            /\ \/ g.issued[f.i].ok
                               \/ f.attempt >= config[Mgr(t)].maxRetries ]_vars

\* C28 happens: a keys.set of two items has retried and waited, and has
\* issued its two operations one after the other.
C28_Witness ==
    /\ frame[1].pc = "done"
    /\ frame[1].op = "set"
    /\ frame[1].ret.status = "ok"
    /\ Len(frame[1].issued) = 2
    /\ frame[1].tries > 2
    /\ frame[1].waits # <<>>

\* The collection s after the first n items of a keys.set were applied
\* once each.
RECURSIVE Applied(_, _, _)
Applied(delta, n, s) ==
    IF n = 0 THEN s
    ELSE LET item == delta[n]
             key == DataKey(item.category, item.id)
         IN  IF Truthy(item.value)
             THEN WriteBody(1, key, item.value, Applied(delta, n - 1, s))
             ELSE RemoveBody(1, key, Applied(delta, n - 1, s))

\* C29: retries duplicate no side effect: while a write, delete, clear or
\* removeAll is tried and tried again, whether or not a failed attempt
\* took effect, the collection is as it was when the call began or as one
\* application makes it, and when the call has succeeded it is as one
\* application makes it.
C29_RetriesDuplicateNothing ==
    LET f == frame[1]
        once == IF f.op = "set" THEN Applied(f.delta, f.i, f.store0)
                ELSE Effect(1, f.req, f.store0)
        before == IF f.op = "set" THEN Applied(f.delta, f.i - 1, f.store0)
                  ELSE f.store0
    IN  (f.op \in {"saveCreds", "set", "clear", "removeAll"} /\ f.req.kind # "none")
            => /\ store \in {before, once}
               /\ (f.pc = "done" /\ f.ret.status = "ok") => store = once

\* C29 happens: a write has taken effect, was reported as failed and is
\* about to be tried again.
C29_Witness ==
    /\ frame[1].pc = "wait"
    /\ frame[1].req.kind = "write"
    /\ frame[1].ran = 1
    /\ store # frame[1].store0
    /\ store = Effect(1, frame[1].req, frame[1].store0)

\* The retry loop of the call under way follows the manager's
\* configuration: at most maxRetries attempts, all of them made when the
\* call has failed for good, and retryRequestDelayMs between every two.
FollowsConfig ==
    LET f == frame[1]
        c == config[1]
    IN  f.op = "saveCreds" =>
            /\ f.tries <= c.maxRetries
            /\ (f.pc = "done" /\ f.ret.status = "error") => f.tries = c.maxRetries
            /\ Len(f.waits) = IF f.pc = "done" /\ f.ret.status = "error"
                              THEN f.tries - 1
                              ELSE IF f.pc \in {"loop", "done"} /\ f.tries = 0
                              THEN 0
                              ELSE f.attempt - 1
            /\ \A i \in 1..Len(f.waits) : f.waits[i] = c.retryRequestDelayMs

\* C30: the configured retry policy is the effective one: a manager
\* constructed with maxRetries N or retryRequestDelayMs D has N or D in its
\* configuration, and 10 or 200 only when the option was omitted; its
\* retry loop makes up to that many attempts and waits that long, the
\* same between every two consecutive attempts.
C30_ConfiguredPolicyIsEffective ==
    LET f == frame[1]
        c == config[1]
        Supplied(option, default) == IF option = Undef THEN default ELSE option.n
    IN  /\ (f.op = "new" /\ f.pc = "done" /\ f.ret.status = "ok") =>
                /\ c.maxRetries = Supplied(f.args[2].maxRetries, 10)
                /\ c.retryRequestDelayMs =
                        Supplied(f.args[2].retryRequestDelayMs, 200)
        /\ FollowsConfig

\* C31: no failure without an attempt: a storage operation that has
\* failed with a MongoConnectionError has checked the connection at least
\* once, and the error carries a defined underlying cause.
C31_NoFailureWithoutAttempt ==
    LET f == frame[1]
    IN  ( /\ f.op \in {"saveCreds", "query"}
          /\ f.pc = "done"
          /\ f.ret.status = "error"
          /\ f.ret.error.name = "MongoConnectionError" )
            => /\ f.tries >= 1
               /\ f.ret.error.cause # NoErr

\* C32: fingerprint defaulting: in the sync value that fromObject
\* reconstructs, every rawId, currentIndex and deviceIndexes that the
\* argument's fingerprint holds is returned unchanged, a missing
\* currentIndex is the result's rawId and a missing deviceIndexes is the
\* empty sequence.
C32_FingerprintDefaulting ==
    LET f == frame[1]
        given == Prop(f.args[1], "fingerprint")
        made == Prop(f.ret.value, "fingerprint")
        Present(name) == Prop(given, name) # Undef
    IN  (f.op = "fromObject" /\ f.pc = "done" /\ f.ret.status = "ok"
            /\ given.k = "obj")
            => /\ Present("rawId") => Prop(made, "rawId") = Prop(given, "rawId")
               /\ Prop(made, "currentIndex") =
                     IF Present("currentIndex") THEN Prop(given, "currentIndex")
                     ELSE Prop(made, "rawId")
               /\ Prop(made, "deviceIndexes") =
                     IF Present("deviceIndexes") THEN Prop(given, "deviceIndexes")
                     ELSE Arr(<<>>)

\* C33: read operations change nothing: while a getAuthState, a keys.get
\* or a query is under way and when it has returned or failed, the
\* collection is the one the call began with; in particular a session
\* without a credentials record has none after a getAuthState that
\* bootstrapped a bundle.
C33_ReadsChangeNothing ==
    LET f == frame[1]
    IN  f.op \in {"getAuthState", "get", "query"} =>
            /\ store = f.store0
            /\ FullId(1, CredsId) \notin DOMAIN f.store0
                    => FullId(1, CredsId) \notin DOMAIN store

\* C33 happens: a getAuthState whose first attempt failed has returned a
\* bootstrapped bundle.
C33_Witness ==
    LET f == frame[1]
    IN  /\ f.op = "getAuthState" /\ f.pc = "done" /\ f.ret.status = "ok"
        /\ f.tries >= 2
        /\ FullId(1, CredsId) \notin DOMAIN store
        /\ Prop(f.ret.value, "creds") = initAuthCreds(rnd - 1)

\* C34: getAuthState never replaces unreadable credentials by fresh ones:
\* a getAuthState (of useMongoAuthState too) that has returned a state has
\* read the credentials record successfully on its last attempt; when the
\* session has a record, the record can be decoded and the state holds
\* the stored bundle; when the read failed or the record cannot be
\* decoded, the call has raised the error.
C34_NoFreshForUnreadable ==
    LET f == frame[1]
        key == FullId(1, CredsId)
        read == f.issued[Len(f.issued)].ok
    IN  (f.op = "getAuthState" /\ f.pc = "done") =>
            /\ f.ret.status = "ok" =>
                  /\ read
                  /\ key \in DOMAIN store =>
                        /\ ~IsThrow(Parse(store[key].value))
                        /\ Prop(f.ret.value, "creds") = Parse(store[key].value)
            /\ ~read =>
                  /\ f.ret.status = "error"
                  /\ f.ret.error.name = "MongoConnectionError"
            /\ (key \in DOMAIN store /\ IsThrow(Parse(store[key].value))) =>
                  /\ f.ret.status = "error"
                  /\ f.ret.value = Undef

\* C34 happens: the session's credentials record cannot be decoded, and a
\* getAuthState that read it has raised a validation error.
C34_Witness ==
    LET f == frame[1]
        key == FullId(1, CredsId)
    IN  /\ f.op = "getAuthState" /\ f.pc = "done"
        /\ key \in DOMAIN store /\ IsThrow(Parse(store[key].value))
        /\ f.issued[Len(f.issued)].ok
        /\ f.ret.error.name = "SessionValidationError"

\* C35: the configured collectionName decides where records live: of two
\* managers of one session with different collection names, of which only
\* the first writes, the second finds no record (its getAuthState returns
\* a bootstrapped bundle, its keys.get maps the id to null) and its calls,
\* clears included, leave the collection of the first as it was.
C35_CollectionNameDecides ==
    LET f == frame[2]
    IN  ( /\ config[1].collectionName # config[2].collectionName
          /\ f.pc = "done" /\ f.no = calls )
            => /\ store = f.store0
               /\ f.op = "getAuthState"
                    => Prop(f.ret.value, "creds") = initAuthCreds(rnd - 1)
               /\ f.op = "get" => f.ret.value = Obj(f.ids[1] :> Null)

C37_CredsKeyApart ==
    \A x, y \in written :
        (x.category = "" /\ y.category # "")
            => FullId(x.m, x.id) # ItemKey(y.m, y.category, y.id)

\* The keys.set delta targets (category, id).
Targets(delta, category, id) ==
    \E i \in 1..Len(delta) : delta[i].category = category /\ delta[i].id = id

\* The value that the delta gives to (category, id).
Given(delta, category, id) ==
    delta[CHOOSE i \in 1..Len(delta) :
              delta[i].category = category /\ delta[i].id = id].value

\* A keys.get of one id, made right after a successful keys.set of the
\* same caller, returns what that set gave to the id (null when it gave
\* null), if the other caller has set nothing for the id.
LatestSetIsRead ==
    LET f == frame[1]
    IN  ( /\ f.op = "get" /\ f.pc = "done"
          /\ f.prev.op = "set" /\ f.prev.ok
          /\ Targets(f.prev.delta, f.type, f.ids[1])
          /\ frame[2].prev.op = "none"
          /\ ~Targets(frame[2].delta, f.type, f.ids[1]) )
            => /\ f.ret.status = "ok"
               /\ f.ret.value =
                     Obj(f.ids[1] :> Given(f.prev.delta, f.type, f.ids[1]))

\* When the first keys.set of each of two callers has completed, a key
\* both target holds what one of them gave it, and a key only one targets
\* holds what that one gave it; null stands for no record.
OneOfTheTwo ==
    LET d1 == frame[1].delta
        d2 == frame[2].delta
        Stored(v) == IF Truthy(v) THEN Stringify(v) ELSE Stringify(Null)
        Final(key) == IF key \in DOMAIN store THEN store[key].value
                      ELSE Stringify(Null)
    IN  (\A t \in Tasks :
            /\ frame[t].op = "set" /\ frame[t].pc = "done"
            /\ frame[t].ret.status = "ok" /\ frame[t].prev.op = "none")
            => /\ \A i \in 1..Len(d1) :
                    Final(ItemKey(1, d1[i].category, d1[i].id)) \in
                        { Stored(d1[i].value) } \cup
                        IF Targets(d2, d1[i].category, d1[i].id)
                        THEN { Stored(Given(d2, d1[i].category, d1[i].id)) }
                        ELSE {}
               /\ \A i \in 1..Len(d2) :
                    Final(ItemKey(2, d2[i].category, d2[i].id)) \in
                        { Stored(d2[i].value) } \cup
                        IF Targets(d1, d2[i].category, d2[i].id)
                        THEN { Stored(Given(d1, d2[i].category, d2[i].id)) }
                        ELSE {}

\* C38: last write wins per key: a keys.get returns the value of the
\* latest completed keys.set for the key, or null if that set passed null;
\* after two keys.set calls that ran at the same time a key of both holds
\* the value of one of them and a key of one holds that one's value.
C38_LastWriteWins == LatestSetIsRead /\ OneOfTheTwo

=============================================================================
